---- MODULE Spec2Model ----
(***************************************************************************)
(* voyager-vpm: the two-file transactional writer (manifest + lockfile),   *)
(* its recovery, the manifest-integrity gate and the commands that use     *)
(* them, as a state machine over the three files on disk.                  *)
(*                                                                         *)
(* One process runs one command at a time (pc); it can crash between any   *)
(* two file-system operations, file-system writes can fail, and the user   *)
(* can edit the files by hand between two commands.                        *)
(***************************************************************************)
EXTENDS Integers, Sequences, FiniteSets, TLC

(* ---------------------------- bounds ---------------------------------- *)

\* crashes and hand edits, together, in one behaviour
MaxFaults == 3

(* ---------------------------- data ------------------------------------ *)

\* package ids of the VPM namespace that `add` can produce
PkgIds == {"a"}

\* the build targets of write_atomic_file (cfg(windows) / cfg(unix))
Platforms == {"unix", "windows"}

\* A manifest file: ex = the file exists; pkgs = the [[packages]] records in
\* file order, each a Package [id, repository]; fmt = "canon" for the bytes toml::to_string_pretty writes and
\* "hand" for any other formatting of the same document.
NoManifest == [ex |-> FALSE, pkgs |-> <<>>, fmt |-> "canon"]

\* A lockfile: hash = manifest_hash (<<>> when the key is absent);
\* pkgs = the [[packages]] records, each a LockedPackage
\* [id, repository, versions] whose versions are LockedVersion records
\* [version, tag].
NoHash == <<>>
WrongHash == <<"definitely-wrong-hash">>
NoLock == [ex |-> FALSE, hash |-> NoHash, pkgs |-> <<>>]

\* The transaction log file: kind = "none" (no file), "log" (a serialized
\* ManifestLockTransaction) or "garbage" (bytes that are no JSON).
NoTx ==
    [kind |-> "none", old_manifest |-> NoManifest, old_lock |-> NoLock,
     new_manifest |-> NoManifest, new_lock |-> NoLock]
GarbageTx == [NoTx EXCEPT !.kind = "garbage"]

\* toml::to_string_pretty(manifest): the canonical bytes of a manifest value
serialize_manifest(m) == [ex |-> TRUE, pkgs |-> m, fmt |-> "canon"]

\* toml::from_str: the manifest value of a file, whatever its formatting
ParseManifest(file) == file.pkgs

\* toml::to_string_pretty(lockfile)
serialize_lock(l) == [ex |-> TRUE, hash |-> l.hash, pkgs |-> l.pkgs]

\* Lockfile::new()
Lockfile_new == [hash |-> NoHash, pkgs |-> <<>>]

\* Lockfile::load_or_default
load_or_default(file) ==
    IF file.ex THEN [hash |-> file.hash, pkgs |-> file.pkgs] ELSE Lockfile_new

\* sha256 of the normalized serialization: a function of the manifest value
\* alone, different for different values
compute_manifest_hash_from_manifest(m) == <<"sha256">> \o m

\* Manifest::validate: no package id twice
ManifestValid(m) == \A i, j \in 1..Len(m) : m[i].id = m[j].id => i = j

\* the ids of a package list (manifest.packages or lockfile.packages)
IdsOf(pkgs) == {pkgs[i].id : i \in 1..Len(pkgs)}

\* Package { id, repository }: the record `add` pushes for --repo o/r
Package(id, repository) == [id |-> id, repository |-> repository]

(* ---------------------- file-system primitives ------------------------ *)

\* write_atomic_file(path, content): the outcomes of one step on the target
\* file `cur` (`none` is the absent file). st = "ok": returned Ok; "err":
\* returned Err; "mid": the cfg(windows) build has removed the target and has
\* not renamed the temp file yet.
\*   unix:    the temp-file steps fail (target untouched), or the rename
\*            happens and sync_parent_dir then succeeds or fails;
\*   windows: remove_file(path) when path.exists(), then the rename.
write_atomic_file(plat, stage, cur, exists, content, none) ==
    IF plat = "unix"
    THEN {[file |-> cur, st |-> "err"],
          [file |-> content, st |-> "ok"],
          [file |-> content, st |-> "err"]}
    ELSE IF stage = "start" /\ exists
         THEN {[file |-> cur, st |-> "err"], [file |-> none, st |-> "mid"]}
         ELSE {[file |-> cur, st |-> "err"], [file |-> content, st |-> "ok"]}

\* remove_file_if_exists(path): nothing to do when absent; else remove_file
\* fails (file kept), or succeeds and sync_parent_dir succeeds or (unix) fails
remove_file_if_exists(plat, cur, exists, none) ==
    IF ~exists
    THEN {[file |-> cur, st |-> "ok"]}
    ELSE {[file |-> cur, st |-> "err"], [file |-> none, st |-> "ok"]}
         \cup (IF plat = "unix" THEN {[file |-> none, st |-> "err"]} ELSE {})

(* ------------------- recovery: the four comparisons ------------------- *)

manifest_is_old(cur, t) ==
    IF ~cur.ex /\ ~t.old_manifest.ex THEN TRUE
    ELSE IF cur.ex /\ t.old_manifest.ex THEN cur = t.old_manifest
    ELSE FALSE

manifest_is_new(cur, t) == cur.ex /\ cur = t.new_manifest

lock_is_old(cur, t) ==
    IF ~cur.ex /\ ~t.old_lock.ex THEN TRUE
    ELSE IF cur.ex /\ t.old_lock.ex THEN cur = t.old_lock
    ELSE FALSE

lock_is_new(cur, t) == cur.ex /\ cur = t.new_lock

\* RecoveryDecision without its last branch: whatever is found that is not
\* finalized is rolled back
RecoveryDecision_Clobbers(m, l, t) ==
    IF manifest_is_new(m, t) /\ lock_is_new(l, t) THEN "finalize_new"
    ELSE IF manifest_is_old(m, t) /\ lock_is_old(l, t) THEN "finalize_old"
    ELSE "rollback"

\* the branch recover_manifest_lock_transaction takes, in the code's order
RecoveryDecision(m, l, t) ==
    IF manifest_is_new(m, t) /\ lock_is_new(l, t) THEN "finalize_new"
    ELSE IF manifest_is_old(m, t) /\ lock_is_old(l, t) THEN "finalize_old"
    ELSE IF manifest_is_new(m, t) /\ lock_is_old(l, t) THEN "rollback"
    ELSE "unresolved"

(* ---------------------------- state ----------------------------------- *)

VARIABLES
    platform,   \* the build target
    manifest,   \* voyager.toml on disk
    lock,       \* voyager.lock on disk
    txn,        \* voyager.txn on disk
    pc,         \* where the running command is ("idle": no command runs)
    cmd,        \* the running command and its arguments
    ret,        \* who called recover_manifest_lock_transaction
    rtx,        \* recovery: the log it loaded
    tx,         \* save_manifest_and_lock: the transaction it built
    mem,        \* the command's in-memory manifest, lockfile, current_hash
    result,     \* the command's result at exit ("ok" or the error kind)
    wstage,     \* write_atomic_file: "removed" between remove and rename
    wfail,      \* save_manifest_and_lock: which write of the closure failed
    recres,     \* the result of the recovery attempted after a failed write
    rsnap,      \* history: the two files as recovery found them
    start,      \* history: the three files when the command began
    crash,      \* history: the last crash inside save_manifest_and_lock
    taint,      \* history: a hand edit happened while a log was on disk
    faults,     \* history: number of crashes and hand edits so far
    max_concurrent, \* fetch: args.max_concurrent
    workers,    \* PackageFetcher::fetch: the fetch_package future of each
                \* manifest index
    outcomes,   \* PackageFetcher::fetch: the (index, result) pairs in the
                \* order buffer_unordered yielded them
    events,     \* the on_done calls the progress reporter received
    count,      \* the count of the FetchPartialFailure the fetcher returned
    max_retries,    \* args.max_retries
    attempt,    \* download_with_retry, check_url_exists: the loop variable
    rq,         \* where the retry loop is ("idle": no loop runs)
    calls,      \* history: the requests sent, each with what came back
    sent,       \* history: how many HEAD and how many GET requests were sent
    slept,      \* history: the delays slept between attempts, milliseconds
    verdict,    \* what the retry loop returned
    rate_limit_remaining,   \* GitHubClient.rate_limit_remaining
    rate_limit_reset,       \* GitHubClient.rate_limit_reset, epoch seconds
    now,        \* the system clock, epoch seconds
    tasks,      \* the futures that call the GitHub client concurrently
    quota,      \* history: the first probe's answer and the API calls sent
    dir,        \* the directory of the output file: each name's file
    writers,    \* the calls of write_atomic_file on the output path
    TEMP_FILE_COUNTER,  \* of each process
    previous,   \* history: the output file before any of the writes
    observed,   \* history: what the last read of the output path returned
    output,     \* generate: the VpmOutput it built for write_json
    upstream,   \* the releases the upstream lists for each repository's package
    last_ok     \* history: the last fetch returned Ok

vars ==
    <<platform, manifest, lock, txn, pc, cmd, ret, rtx, tx, mem, result,
      wstage, wfail, recres, rsnap, start, crash, taint, faults,
      max_concurrent, workers, outcomes, events, count,
      max_retries, attempt, rq, calls, sent, slept, verdict,
      rate_limit_remaining, rate_limit_reset, now, tasks, quota,
      dir, writers, TEMP_FILE_COUNTER, previous, observed,
      output, upstream, last_ok>>

\* the state of PackageFetcher::fetch
fetcher == <<max_concurrent, workers, outcomes, events, count>>

\* the files and the command that runs on them
files ==
    <<manifest, lock, txn, pc, cmd, ret, rtx, tx, mem, result, wstage, wfail,
      recres, rsnap, crash, taint>>

\* the state of the network clients: GitHubClient and HttpClient
retry == <<max_retries, attempt, rq, calls, sent, slept, verdict>>
github == <<rate_limit_remaining, rate_limit_reset, now, tasks, quota>>
atomic == <<dir, writers, TEMP_FILE_COUNTER, previous, observed>>
again == <<upstream, last_ok>>
net == <<retry, github, atomic, output, again>>

\* default_value of --max-concurrent
DefaultMaxConcurrent == 5

\* default_value of --max-retries
DefaultMaxRetries == 3

\* Result<String> of fetch_raw and Option<bool> of the URL checks, with the
\* reqwest::Error of an Err: its kind, its status() (0: None), is_timeout()
\* and is_connect()
Ok == [ok |-> TRUE, kind |-> "none", status |-> 0, timeout |-> FALSE,
       connect |-> FALSE]
HttpErr(k, st, t, c) ==
    [ok |-> FALSE, kind |-> k, status |-> st, timeout |-> t, connect |-> c]
NoVerdict == HttpErr("unset", 0, FALSE, FALSE)
NoneSent == [head |-> 0, get |-> 0]

\* u64::MAX, "not yet fetched": the largest integer of the model stands for it
U64_MAX == 2147483647

\* the futures that can be between their first and their last call of the
\* client at once: two package fetches of one voy fetch
RateTasks == {"t1", "t2"}

\* history: the request a future sent last, whether the counters called for
\* a wait at that moment, and whether they were still the sentinel
NoSend == [op |-> "none", due |-> FALSE, unset |-> FALSE]
NoTask == [op |-> "none", pc |-> "done", page |-> 1, wake |-> 0,
           last |-> NoSend]

\* history of a client: the remaining quota its first probe reported
\* (U64_MAX: no probe was answered yet), the API calls it has sent since,
\* and whether it has probed again or slept until a reset
NoQuota == [first |-> U64_MAX, calls |-> 0, relief |-> FALSE]

\* GitHubClient::new, before any future calls the client
GitHubNew ==
    /\ rate_limit_remaining = U64_MAX
    /\ rate_limit_reset = 0
    /\ now = 1
    /\ tasks = [t \in RateTasks |-> NoTask]
    /\ quota = NoQuota

\* a file: whether it exists, whose bytes it holds, and whether all of them
NoFile == [ex |-> FALSE, data |-> "", whole |-> TRUE]
WholeFile(d) == [ex |-> TRUE, data |-> d, whole |-> TRUE]

\* the processes that write the output file, by pid, and the calls of
\* write_atomic_file: two calls, in one process or in two
Pids == {1, 2}
Writers == {"w1", "w2"}
OutputPath == <<0, 0>>
TempPaths == Pids \X {0, 1}
NoWriter == [pid |-> 1, pc |-> "done", temp |-> OutputPath]

\* no VpmOutput: no command has built one
NoOutput == <<>>

\* nothing writes the output file
NoWrites ==
    /\ dir = [n \in {OutputPath} \cup TempPaths |-> NoFile]
    /\ writers = [w \in Writers |-> NoWriter]
    /\ TEMP_FILE_COUNTER = [p \in Pids |-> 0]
    /\ previous = NoFile
    /\ observed = NoFile

\* the repositories of the manifests that are fetched twice
RefetchRepos == {"o/r", "o/b"}

\* no fetch has run, and nothing is assumed of the upstream
NoRefetch ==
    /\ upstream = [p \in RefetchRepos |-> <<>>]
    /\ last_ok = FALSE

\* no request loop runs, and the client is as GitHubClient::new built it
NetIdle ==
    /\ max_retries = DefaultMaxRetries
    /\ attempt = 0
    /\ rq = "idle"
    /\ calls = <<>>
    /\ sent = NoneSent
    /\ slept = <<>>
    /\ verdict = NoVerdict
    /\ GitHubNew
    /\ NoWrites
    /\ output = NoOutput
    /\ NoRefetch

NoCmd == [name |-> "none", pkg |-> "a", flag |-> FALSE]
NoMem == [manifest |-> <<>>, lock |-> Lockfile_new, hash |-> NoHash]
NoSnap == [m |-> NoManifest, l |-> NoLock, t |-> NoTx]
NoCrash == [on |-> FALSE, tx |-> NoTx, m |-> NoManifest, l |-> NoLock]

\* no command runs in an empty directory
InitFiles ==
    /\ platform \in Platforms
    /\ manifest = NoManifest
    /\ lock = NoLock
    /\ txn = NoTx
    /\ pc = "idle"
    /\ cmd = NoCmd
    /\ ret = "none"
    /\ rtx = NoTx
    /\ tx = NoTx
    /\ mem = NoMem
    /\ result = "none"
    /\ wstage = "start"
    /\ wfail = "none"
    /\ recres = "none"
    /\ rsnap = NoSnap
    /\ start = NoSnap
    /\ crash = NoCrash
    /\ taint = FALSE
    /\ faults = 0
    /\ max_concurrent = DefaultMaxConcurrent
    /\ workers = <<>>
    /\ outcomes = <<>>
    /\ events = <<>>
    /\ count = 0

Init == InitFiles /\ NetIdle

\* the variables no file-system step of a command touches
hist == <<platform, faults, start, fetcher, net>>

Exit(kind) == pc' = "exit" /\ result' = kind

\* a history flag: the log file just went away, so no edit taints it
Untaint(t) == IF t.kind = "none" THEN FALSE ELSE taint

(* -------------- recover_manifest_lock_transaction --------------------- *)

\* return to the caller: check_and_load ("gate"), commands::lock ("lock"),
\* the head of save_manifest_and_lock ("save"), or its failed-write path
\* ("save_err"), which drops recovery's result and returns the write error
RecReturn(kind) ==
    IF ret = "save_err"
    THEN /\ Exit("FileWrite")
         /\ recres' = (IF kind = "ok" THEN "ok" ELSE "err")
    ELSE /\ recres' = recres
         /\ IF kind = "ok"
            THEN /\ pc' = (CASE ret = "gate" -> "gate"
                             [] ret = "lock" -> "lk_check"
                             [] OTHER -> "sv_read")
                 /\ result' = result
            ELSE Exit(kind)

\* load_transaction_log, the two reads and the choice of the branch
RecLoad ==
    /\ pc = "rec_load"
    /\ rsnap' = [m |-> manifest, l |-> lock, t |-> txn]
    /\ rtx' = txn
    /\ CASE txn.kind = "none" -> RecReturn("ok")
         [] txn.kind = "garbage" -> RecReturn("JsonParse")
         [] OTHER ->
              LET d == RecoveryDecision(manifest, lock, txn) IN
              IF d = "unresolved" THEN RecReturn("Unresolved")
              ELSE /\ pc' = (IF d = "rollback" THEN "rec_wm" ELSE "rec_rm")
                   /\ UNCHANGED <<result, recres>>
    /\ UNCHANGED <<manifest, lock, txn, cmd, ret, tx, mem, wstage, wfail,
                   crash, taint, hist>>

\* RecWriteManifest that goes on to the lockfile with the manifest untouched
RecWriteManifest_Skips ==
    /\ pc = "rec_wm"
    /\ pc' = "rec_wl"
    /\ UNCHANGED <<manifest, lock, txn, cmd, ret, rtx, tx, mem, result, wstage,
                   wfail, recres, rsnap, crash, taint, hist>>

\* rollback, first file: write old_manifest back, or delete the manifest
RecWriteManifest ==
    /\ pc = "rec_wm"
    /\ \E o \in (IF rtx.old_manifest.ex
                 THEN write_atomic_file(platform, wstage, manifest, manifest.ex,
                                        rtx.old_manifest, NoManifest)
                 ELSE remove_file_if_exists(platform, manifest, manifest.ex,
                                            NoManifest)) :
          /\ manifest' = o.file
          /\ CASE o.st = "ok" ->
                    pc' = "rec_wl" /\ wstage' = "start"
                    /\ UNCHANGED <<result, recres>>
               [] o.st = "mid" ->
                    pc' = pc /\ wstage' = "removed"
                    /\ UNCHANGED <<result, recres>>
               [] OTHER -> RecReturn("FileWrite") /\ wstage' = "start"
    /\ UNCHANGED <<lock, txn, cmd, ret, rtx, tx, mem, wfail, rsnap, crash,
                   taint, hist>>

\* rollback, second file: write old_lock back, or delete the lockfile
RecWriteLock ==
    /\ pc = "rec_wl"
    /\ \E o \in (IF rtx.old_lock.ex
                 THEN write_atomic_file(platform, wstage, lock, lock.ex,
                                        rtx.old_lock, NoLock)
                 ELSE remove_file_if_exists(platform, lock, lock.ex, NoLock)) :
          /\ lock' = o.file
          /\ CASE o.st = "ok" ->
                    pc' = "rec_rm" /\ wstage' = "start"
                    /\ UNCHANGED <<result, recres>>
               [] o.st = "mid" ->
                    pc' = pc /\ wstage' = "removed"
                    /\ UNCHANGED <<result, recres>>
               [] OTHER -> RecReturn("FileWrite") /\ wstage' = "start"
    /\ UNCHANGED <<manifest, txn, cmd, ret, rtx, tx, mem, wfail, rsnap, crash,
                   taint, hist>>

\* RecRemoveLog that returns Ok with the log still on disk
RecRemoveLog_KeepsLog ==
    /\ pc = "rec_rm"
    /\ RecReturn("ok")
    /\ UNCHANGED <<manifest, lock, txn, cmd, ret, rtx, tx, mem, wstage, wfail,
                   rsnap, crash, taint, hist>>

\* every branch ends by deleting the log
RecRemoveLog ==
    /\ pc = "rec_rm"
    /\ \E o \in remove_file_if_exists(platform, txn, txn.kind # "none", NoTx) :
          /\ txn' = o.file
          /\ taint' = Untaint(o.file)
          /\ IF o.st = "ok" THEN RecReturn("ok") ELSE RecReturn("FileWrite")
    /\ UNCHANGED <<manifest, lock, cmd, ret, rtx, tx, mem, wstage, wfail,
                   rsnap, crash, hist>>

(* -------------------- save_manifest_and_lock -------------------------- *)

\* the call: it begins with recovery
CallSave(m, l) ==
    /\ mem' = [mem EXCEPT !.manifest = m, !.lock = l]
    /\ pc' = "rec_load"
    /\ ret' = "save"

\* read the two files as they are, serialize the new pair, build the log
SaveRead ==
    /\ pc = "sv_read"
    /\ tx' = [kind |-> "log",
              old_manifest |-> manifest,
              old_lock |-> lock,
              new_manifest |-> serialize_manifest(mem.manifest),
              new_lock |-> serialize_lock(mem.lock)]
    /\ pc' = "sv_log"
    /\ crash' = NoCrash
    /\ rtx' = NoTx
    /\ UNCHANGED <<manifest, lock, txn, cmd, ret, mem, result, wstage,
                   wfail, recres, rsnap, taint, hist>>

\* SaveWriteLog that goes on to the manifest without writing the log
SaveWriteLog_Skips ==
    /\ pc = "sv_log"
    /\ pc' = "sv_wm"
    /\ UNCHANGED <<manifest, lock, txn, cmd, ret, rtx, tx, mem, result, wstage,
                   wfail, recres, rsnap, crash, taint, hist>>

\* write_transaction_log(config_path, &tx)?
SaveWriteLog ==
    /\ pc = "sv_log"
    /\ \E o \in write_atomic_file(platform, wstage, txn, txn.kind # "none",
                                  tx, NoTx) :
          /\ txn' = o.file
          /\ taint' = Untaint(o.file)
          /\ CASE o.st = "ok" ->
                    pc' = "sv_wm" /\ wstage' = "start" /\ result' = result
               [] o.st = "mid" ->
                    pc' = pc /\ wstage' = "removed" /\ result' = result
               [] OTHER -> Exit("FileWrite") /\ wstage' = "start"
    /\ UNCHANGED <<manifest, lock, cmd, ret, rtx, tx, mem, wfail, recres,
                   rsnap, crash, hist>>

\* write_atomic(config_path, &tx.new_manifest)?  On Err: recover, return Err
SaveWriteManifest ==
    /\ pc = "sv_wm"
    /\ \E o \in write_atomic_file(platform, wstage, manifest, manifest.ex,
                                  tx.new_manifest, NoManifest) :
          /\ manifest' = o.file
          /\ CASE o.st = "ok" ->
                    pc' = "sv_wl" /\ wstage' = "start"
                    /\ UNCHANGED <<ret, wfail>>
               [] o.st = "mid" ->
                    pc' = pc /\ wstage' = "removed"
                    /\ UNCHANGED <<ret, wfail>>
               [] OTHER ->
                    pc' = "rec_load" /\ ret' = "save_err"
                    /\ wfail' = "manifest" /\ wstage' = "start"
    /\ UNCHANGED <<lock, txn, cmd, rtx, tx, mem, result, recres, rsnap, crash,
                   taint, hist>>

\* SaveWriteLock that returns the write error without attempting recovery
SaveWriteLock_NoRecovery ==
    /\ pc = "sv_wl"
    /\ \E o \in write_atomic_file(platform, wstage, lock, lock.ex,
                                  tx.new_lock, NoLock) :
          /\ lock' = o.file
          /\ CASE o.st = "ok" ->
                    pc' = "sv_rm" /\ wstage' = "start"
                    /\ UNCHANGED <<result, wfail>>
               [] o.st = "mid" ->
                    pc' = pc /\ wstage' = "removed"
                    /\ UNCHANGED <<result, wfail>>
               [] OTHER ->
                    Exit("FileWrite")
                    /\ wfail' = "lock" /\ wstage' = "start"
    /\ UNCHANGED <<manifest, txn, cmd, ret, rtx, tx, mem, recres, rsnap,
                   crash, taint, hist>>

\* write_atomic(lock_path, &tx.new_lock)?  On Err: recover, return Err
SaveWriteLock ==
    /\ pc = "sv_wl"
    /\ \E o \in write_atomic_file(platform, wstage, lock, lock.ex,
                                  tx.new_lock, NoLock) :
          /\ lock' = o.file
          /\ CASE o.st = "ok" ->
                    pc' = "sv_rm" /\ wstage' = "start"
                    /\ UNCHANGED <<ret, wfail>>
               [] o.st = "mid" ->
                    pc' = pc /\ wstage' = "removed"
                    /\ UNCHANGED <<ret, wfail>>
               [] OTHER ->
                    pc' = "rec_load" /\ ret' = "save_err"
                    /\ wfail' = "lock" /\ wstage' = "start"
    /\ UNCHANGED <<manifest, txn, cmd, rtx, tx, mem, result, recres, rsnap,
                   crash, taint, hist>>

\* SaveRemoveLog that returns Ok(()) and leaves the log
SaveRemoveLog_KeepsLog ==
    /\ pc = "sv_rm"
    /\ Exit("ok")
    /\ UNCHANGED <<manifest, lock, txn, cmd, ret, rtx, tx, mem, wstage, wfail,
                   recres, rsnap, crash, taint, hist>>

\* remove_file_if_exists(&transaction_path(config_path))?; Ok(())
SaveRemoveLog ==
    /\ pc = "sv_rm"
    /\ \E o \in remove_file_if_exists(platform, txn, txn.kind # "none", NoTx) :
          /\ txn' = o.file
          /\ taint' = Untaint(o.file)
          /\ IF o.st = "ok" THEN Exit("ok") ELSE Exit("FileWrite")
    /\ UNCHANGED <<manifest, lock, cmd, ret, rtx, tx, mem, wstage, wfail,
                   recres, rsnap, crash, hist>>

(* ------------------------- check_and_load ----------------------------- *)

\* the commands that go through check_and_load
GatedCmds == {"fetch", "generate", "add", "remove", "list", "info"}

\* BeginGated whose check_and_load loads the files without recovery first
BeginGated_NoRecovery ==
    /\ pc = "idle"
    /\ \E n \in GatedCmds, p \in PkgIds :
          /\ n \in {"fetch", "generate"} => p = "a"
          /\ cmd' = [name |-> n, pkg |-> p, flag |-> FALSE]
          /\ pc' = "gate" /\ ret' = "gate" /\ result' = result
    /\ start' = [m |-> manifest, l |-> lock, t |-> txn]
    /\ UNCHANGED <<fetcher, net>>
    /\ UNCHANGED <<platform, manifest, lock, txn, rtx, tx, mem, wstage, wfail,
                   recres, rsnap, crash, taint, faults>>

\* main::run for a gated command.  add parses its repository argument first.
BeginGated ==
    /\ pc = "idle"
    /\ \E n \in GatedCmds, p \in PkgIds \cup {"outside", "bad_repo"},
          f \in BOOLEAN :
          /\ p = "bad_repo" => n = "add"
          /\ p = "outside" => n \in {"add", "remove", "info", "list"}
          /\ n \in {"fetch", "generate"} => p = "a"
          /\ n \in {"generate", "add", "remove", "info"} => f = FALSE
          /\ cmd' = [name |-> n, pkg |-> p, flag |-> f]
          /\ IF p = "bad_repo"
             THEN Exit("InvalidRepository") /\ ret' = ret
             ELSE pc' = "rec_load" /\ ret' = "gate" /\ result' = result
    /\ start' = [m |-> manifest, l |-> lock, t |-> txn]
    /\ UNCHANGED <<fetcher, net>>
    /\ UNCHANGED <<platform, manifest, lock, txn, rtx, tx, mem, wstage, wfail,
                   recres, rsnap, crash, taint, faults>>

\* Gate that compares nothing: any stored hash is accepted
Gate_NoCompare ==
    /\ pc = "gate"
    /\ LET m == ParseManifest(manifest)
           current_hash == compute_manifest_hash_from_manifest(m)
           lockfile == load_or_default(lock)
           loaded == [manifest |-> m, lock |-> lockfile, hash |-> current_hash]
       IN  IF ~manifest.ex THEN Exit("FileRead") /\ mem' = mem
           ELSE IF ~ManifestValid(m) THEN Exit("ConfigValidation") /\ mem' = mem
           ELSE /\ mem' = loaded
                /\ pc' = "body"
                /\ result' = result
    /\ crash' = NoCrash
    /\ rtx' = NoTx
    /\ UNCHANGED <<manifest, lock, txn, cmd, ret, tx, wstage, wfail,
                   recres, rsnap, taint, hist>>

\* check_and_load after recovery returned Ok: Manifest::load, the hash of
\* the loaded manifest, Lockfile::load_or_default, the comparison
Gate ==
    /\ pc = "gate"
    /\ LET m == ParseManifest(manifest)
           current_hash == compute_manifest_hash_from_manifest(m)
           lockfile == load_or_default(lock)
           loaded == [manifest |-> m, lock |-> lockfile, hash |-> current_hash]
       IN  IF ~manifest.ex THEN Exit("FileRead") /\ mem' = mem
           ELSE IF ~ManifestValid(m) THEN Exit("ConfigValidation") /\ mem' = mem
           ELSE IF lockfile.hash # NoHash /\ lockfile.hash # current_hash
           THEN Exit("ManifestHashMismatch") /\ mem' = loaded
           ELSE /\ mem' = loaded
                /\ pc' = "body"
                /\ result' = result
    /\ crash' = NoCrash
    /\ rtx' = NoTx
    /\ UNCHANGED <<manifest, lock, txn, cmd, ret, tx, wstage, wfail,
                   recres, rsnap, taint, hist>>

(* --------------------------- add, remove ------------------------------ *)

\* manifest.packages.retain(|p| p.id != id)
RetainIds(m, id) == SelectSeq(m, LAMBDA p : p.id # id)

\* lockfile.packages.retain(|p| p.id != id)
RetainPkgs(pkgs, id) == SelectSeq(pkgs, LAMBDA p : p.id # id)

\* AddBody that writes the manifest with the new package before it verifies
\* the repository
AddBody_PushesBeforeVerify ==
    /\ pc = "body" /\ cmd.name = "add"
    /\ cmd.pkg # "outside" /\ ~cmd.pkg \in IdsOf(mem.manifest)
    /\ manifest' = serialize_manifest(
                       Append(mem.manifest, Package(cmd.pkg, "o/r")))
    /\ Exit("RepositoryNotFound")
    /\ UNCHANGED <<lock, txn, cmd, ret, rtx, tx, mem, wstage, wfail, recres,
                   rsnap, crash, taint, hist>>

\* commands::add after the gate: the id checks, the duplicate check,
\* verify_repository, push, the new hash, save_manifest_and_lock
AddBody ==
    /\ pc = "body" /\ cmd.name = "add"
    /\ \/ /\ cmd.pkg = "outside"
          /\ Exit("InvalidPackageId") /\ UNCHANGED <<mem, ret>>
       \/ /\ cmd.pkg # "outside" /\ cmd.pkg \in IdsOf(mem.manifest)
          /\ Exit("ConfigValidation") /\ UNCHANGED <<mem, ret>>
       \/ /\ cmd.pkg # "outside" /\ ~cmd.pkg \in IdsOf(mem.manifest)
          /\ Exit("RepositoryNotFound") /\ UNCHANGED <<mem, ret>>
       \/ /\ cmd.pkg # "outside" /\ ~cmd.pkg \in IdsOf(mem.manifest)
          /\ LET m == Append(mem.manifest, Package(cmd.pkg, "o/r")) IN
             CallSave(m, [mem.lock EXCEPT
                            !.hash = compute_manifest_hash_from_manifest(m)])
          /\ result' = result
    /\ UNCHANGED <<manifest, lock, txn, cmd, rtx, tx, wstage, wfail, recres,
                   rsnap, crash, taint, hist>>

\* commands::remove after the gate
RemoveBody ==
    /\ pc = "body" /\ cmd.name = "remove"
    /\ LET m == RetainIds(mem.manifest, cmd.pkg) IN
       IF Len(m) = Len(mem.manifest)
       THEN Exit("ConfigValidation") /\ UNCHANGED <<mem, ret>>
       ELSE /\ CallSave(m, [hash |-> compute_manifest_hash_from_manifest(m),
                            pkgs |-> RetainPkgs(mem.lock.pkgs, cmd.pkg)])
            /\ result' = result
    /\ UNCHANGED <<manifest, lock, txn, cmd, rtx, tx, wstage, wfail, recres,
                   rsnap, crash, taint, hist>>

(* ------------------------------ fetch --------------------------------- *)

\* Release { tag, asset_url }: asset = the release carries the asset file.
\* A tag is a string of characters, so that a leading v can be stripped.
Release(tag, asset) == [tag |-> tag, asset |-> asset]

\* what the upstream can list for one package: nothing, or release 1
Listings == {<<>>, <<Release(<<"1">>, TRUE)>>}

\* Release::version: tag.strip_prefix('v').unwrap_or(tag)
Release_version(r) ==
    IF r.tag # <<>> /\ Head(r.tag) = "v" THEN Tail(r.tag) ELSE r.tag

\* LockedVersion::new for a release whose package.json passed
\* validate_package_manifest: its version is the package.json's version,
\* which the validation has compared with release.version()
LockedVersion_new(r) == [version |-> Release_version(r), tag |-> r.tag]

\* LockedPackage::existing_versions
existing_versions(pkg) ==
    {pkg.versions[i].version : i \in 1..Len(pkg.versions)}

\* LockedPackage::get_version: the first match, as a list of 0 or 1 items
get_version(pkg, v) ==
    LET found == SelectSeq(pkg.versions, LAMBDA x : x.version = v)
    IN  IF found = <<>> THEN <<>> ELSE <<Head(found)>>

\* Release::filter_new
filter_new(releases, existing) ==
    SelectSeq(releases,
              LAMBDA r : r.asset /\ Release_version(r) \notin existing)

\* a wipe that clears nothing
Wipe_KeepsVersions(pkgs) == pkgs

\* the wipe pre-step: pkg.versions.clear() for every package
Wipe(pkgs) == [i \in 1..Len(pkgs) |-> [pkgs[i] EXCEPT !.versions = <<>>]]

\* the first index of id in a package list (Iterator::position), 0 if none
PositionOfId(pkgs, id) ==
    LET I == {i \in 1..Len(pkgs) : pkgs[i].id = id}
    IN  IF I = {} THEN 0 ELSE CHOOSE i \in I : \A j \in I : i <= j

\* Lockfile::get_or_insert_package: push an empty record if the id is absent
get_or_insert_package(pkgs, id, repository) ==
    IF id \in IdsOf(pkgs) THEN pkgs
    ELSE Append(pkgs, [id |-> id, repository |-> repository,
                       versions |-> <<>>])

RECURSIVE InsertMissing_KeepsVersions(_, _)
\* InsertMissing that replaces a changed repository and keeps the versions
InsertMissing_KeepsVersions(m, pkgs) ==
    IF m = <<>> THEN pkgs
    ELSE LET package == Head(m)
             ps == get_or_insert_package(pkgs, package.id, package.repository)
             pos == PositionOfId(ps, package.id)
         IN  InsertMissing_KeepsVersions(Tail(m),
                [ps EXCEPT ![pos].repository = package.repository])

RECURSIVE InsertMissing(_, _)
\* the loop over the manifest's packages: get_or_insert_package, and a
\* record whose repository differs takes the manifest's and loses its versions
InsertMissing(m, pkgs) ==
    IF m = <<>> THEN pkgs
    ELSE LET package == Head(m)
             ps == get_or_insert_package(pkgs, package.id, package.repository)
             pos == PositionOfId(ps, package.id)
         IN  InsertMissing(Tail(m),
                IF ps[pos].repository # package.repository
                THEN [ps EXCEPT ![pos] = [id |-> package.id,
                                          repository |-> package.repository,
                                          versions |-> <<>>]]
                ELSE ps)

\* manifest_order.get(id): the index the HashMap holds for the id (the last
\* one collected), or usize::MAX, here Len(m) + 1
manifest_order(m, id) ==
    LET I == {i \in 1..Len(m) : m[i].id = id}
    IN  IF I = {} THEN Len(m) + 1 ELSE CHOOSE i \in I : \A j \in I : j <= i

RECURSIVE SortFromKey(_, _, _)
SortFromKey(m, pkgs, k) ==
    IF k > Len(m) + 1 THEN <<>>
    ELSE SelectSeq(pkgs, LAMBDA p : manifest_order(m, p.id) = k)
         \o SortFromKey(m, pkgs, k + 1)

\* SortByManifest that leaves the list as the insertions left it
SortByManifest_Unsorted(m, pkgs) == pkgs

\* the stable sort_by_key on the manifest index
SortByManifest(m, pkgs) == SortFromKey(m, pkgs, 1)

\* reconcile_lockfile: drop stale packages, insert missing ones, reorder
reconcile_lockfile(m, pkgs) ==
    SortByManifest(m,
        InsertMissing(m, SelectSeq(pkgs, LAMBDA p : p.id \in IdsOf(m))))

\* fetched_versions.iter().position(|v| v.version == version_str), 0 if none
position(fetched, v) ==
    LET I == {i \in 1..Len(fetched) : fetched[i].version = v}
    IN  IF I = {} THEN 0 ELSE CHOOSE i \in I : \A j \in I : i <= j

\* Vec::remove(pos)
remove(s, pos) == SubSeq(s, 1, pos - 1) \o SubSeq(s, pos + 1, Len(s))

RECURSIVE ListedVersions(_, _, _)
\* the loop over release_order: the fetched version, else the locked one
ListedVersions(order, fetched, existing_package) ==
    IF order = <<>> THEN <<>>
    ELSE LET pos == position(fetched, Head(order))
         IN  IF pos # 0
             THEN <<fetched[pos]>>
                  \o ListedVersions(Tail(order), remove(fetched, pos),
                                    existing_package)
             ELSE get_version(existing_package, Head(order))
                  \o ListedVersions(Tail(order), fetched, existing_package)

\* KeepUnlisted that keeps nothing
KeepUnlisted_KeepsNothing(versions, seen) == <<>>

RECURSIVE KeepUnlisted(_, _)
\* the seen_versions loop: the locked versions whose version string is new
KeepUnlisted(versions, seen) ==
    IF versions = <<>> THEN <<>>
    ELSE IF Head(versions).version \in seen
         THEN KeepUnlisted(Tail(versions), seen)
         ELSE <<Head(versions)>>
              \o KeepUnlisted(Tail(versions),
                              seen \cup {Head(versions).version})

\* release_order: the versions of the releases that carry the asset
release_order(releases) ==
    LET fetchable == SelectSeq(releases, LAMBDA r : r.asset)
    IN  [i \in 1..Len(fetchable) |-> Release_version(fetchable[i])]

\* all_versions of fetch_package: fetched = fetched_versions, the accepted
\* downloads in the order download_assets returned them
all_versions(releases, fetched, existing_package) ==
    IF release_order(releases) = <<>> THEN existing_package.versions
    ELSE LET listed == ListedVersions(release_order(releases), fetched,
                                      existing_package)
         IN  listed \o KeepUnlisted(existing_package.versions,
                                    {listed[i].version : i \in 1..Len(listed)})

\* fetch_package when every download is accepted, in listing order
MergeVersions(existing_package, releases) ==
    LET new_releases == filter_new(releases, existing_versions(existing_package))
    IN  all_versions(releases,
                     [i \in 1..Len(new_releases) |->
                        LockedVersion_new(new_releases[i])],
                     existing_package)

\* commands::fetch after the gate: wipe, PackageFetcher::fetch, and on Ok the
\* hash captured by the gate goes into the lockfile. The fetcher touches no
\* file, so where only the files matter it is one step; FetchStart to
\* FetchCollect below are the same code one await at a time.
FetchBody ==
    /\ pc = "body" /\ cmd.name = "fetch"
    /\ LET wiped == IF cmd.flag THEN Wipe(mem.lock.pkgs) ELSE mem.lock.pkgs
           rec == reconcile_lockfile(mem.manifest, wiped)
       IN  \/ /\ mem.manifest # <<>>
              /\ \E e \in {"GitHub", "FetchPartialFailure"} : Exit(e)
              /\ mem' = mem
           \/ \E up \in [PkgIds -> Listings] :
                 /\ mem' = [mem EXCEPT
                       !.lock = [hash |-> mem.hash,
                                 pkgs |-> [i \in 1..Len(rec) |->
                                    [rec[i] EXCEPT !.versions =
                                       MergeVersions(rec[i],
                                                     up[rec[i].id])]]]]
                 /\ pc' = "fetch_save"
                 /\ result' = result
    /\ UNCHANGED <<manifest, lock, txn, cmd, ret, rtx, tx, wstage, wfail,
                   recres, rsnap, crash, taint, hist>>

\* Lockfile::save: one write_atomic_file of the lockfile, no transaction
LockfileSave(at) ==
    /\ pc = at
    /\ \E o \in write_atomic_file(platform, wstage, lock, lock.ex,
                                  serialize_lock(mem.lock), NoLock) :
          /\ lock' = o.file
          /\ CASE o.st = "ok" -> Exit("ok") /\ wstage' = "start"
               [] o.st = "mid" ->
                    pc' = pc /\ wstage' = "removed" /\ result' = result
               [] OTHER -> Exit("FileWrite") /\ wstage' = "start"
    /\ UNCHANGED <<manifest, txn, cmd, ret, rtx, tx, mem, wfail, recres,
                   rsnap, crash, taint, hist>>

FetchSave == LockfileSave("fetch_save")

(* ------------- PackageFetcher::fetch, one await at a time -------------- *)

\* what the upstream can list for one package of the fetch runs below:
\* tags 1, v1 and 2, with or without the asset, in either order
UpstreamListings ==
    {<<>>,
     <<Release(<<"1">>, TRUE)>>,
     <<Release(<<"1">>, FALSE)>>,
     <<Release(<<"2">>, TRUE), Release(<<"1">>, TRUE)>>,
     <<Release(<<"1">>, TRUE), Release(<<"2">>, TRUE)>>,
     <<Release(<<"v", "1">>, TRUE), Release(<<"1">>, TRUE)>>,
     <<Release(<<"2">>, FALSE), Release(<<"v", "1">>, TRUE)>>}

\* max_concurrent.clamp(1, manifest.packages.len())
package_concurrency(mc, n) == IF mc < 1 THEN 1 ELSE IF mc > n THEN n ELSE mc

\* a download limit that is not divided among the packages
per_package_download_concurrency_Undivided(mc, n) == mc

\* (max_concurrent / package_concurrency).max(1)
per_package_download_concurrency(mc, n) ==
    LET d == mc \div package_concurrency(mc, n) IN IF d < 1 THEN 1 ELSE d

\* existing_packages.get(id).cloned().unwrap_or(empty record): the HashMap
\* holds the last record collected for an id
existing_packages(pkgs, package) ==
    LET I == {i \in 1..Len(pkgs) : pkgs[i].id = package.id}
    IN  IF I = {}
        THEN [id |-> package.id, repository |-> package.repository,
              versions |-> <<>>]
        ELSE pkgs[CHOOSE i \in I : \A j \in I : j <= i]

\* the fetch_package future of one package before its first poll
QueuedWorker(existing_package) ==
    [st |-> "queued", existing_package |-> existing_package,
     releases |-> <<>>, new_releases |-> <<>>, started |-> 0,
     inflight |-> {}, results |-> <<>>]

\* the futures buffer_unordered holds: polled and not yet yielded
InFlightPackages ==
    {i \in 1..Len(workers) : workers[i].st \in {"listing", "downloading"}}

\* Err(e) of get_releases, propagated by `?`
FailedOutcome == [err |-> TRUE, package_id |-> "", versions |-> <<>>,
                  existing_count |-> 0, new_count |-> 0, failed_count |-> 0]

\* the PackageFetchResult that reports no failed release
PackageFetchResult_NoFailures(package, w, results) ==
    [err |-> FALSE, package_id |-> package.id,
     versions |-> w.existing_package.versions,
     existing_count |-> 0, new_count |-> 0, failed_count |-> 0]

\* the tail of fetch_package: fetched_versions and failed_count from the
\* results in the order download_assets returned them, then all_versions
\* and the PackageFetchResult
PackageFetchResult(package, w, results) ==
    LET accepted == SelectSeq(results, LAMBDA r : r.ok)
        fetched == [k \in 1..Len(accepted) |->
                       LockedVersion_new(w.new_releases[accepted[k].release])]
        existing == existing_versions(w.existing_package)
        all == all_versions(w.releases, fetched, w.existing_package)
    IN  [err |-> FALSE, package_id |-> package.id, versions |-> all,
         existing_count |-> Cardinality(existing),
         new_count |-> Len(SelectSeq(all, LAMBDA v : v.version \notin existing)),
         failed_count |-> Len(results) - Len(accepted)]

\* commands::fetch after the gate, up to the first await of the fetcher: the
\* wipe, reconcile_lockfile, the empty-manifest return, the two limits
FetchStart ==
    /\ pc = "body" /\ cmd.name = "fetch"
    /\ LET wiped == IF cmd.flag THEN Wipe(mem.lock.pkgs) ELSE mem.lock.pkgs
           rec == reconcile_lockfile(mem.manifest, wiped)
       IN  IF mem.manifest = <<>>
           THEN /\ mem' = [mem EXCEPT !.lock = [hash |-> mem.hash, pkgs |-> rec]]
                /\ pc' = "fetch_save"
                /\ workers' = <<>>
           ELSE /\ mem' = [mem EXCEPT !.lock.pkgs = rec]
                /\ pc' = "fetching"
                /\ workers' = [i \in 1..Len(mem.manifest) |->
                      QueuedWorker(existing_packages(rec, mem.manifest[i]))]
    /\ outcomes' = <<>> /\ events' = <<>> /\ count' = 0
    /\ UNCHANGED <<manifest, lock, txn, cmd, ret, rtx, tx, result, wstage,
                   wfail, recres, rsnap, crash, taint, net, platform, faults,
                   start, max_concurrent>>

\* buffer_unordered(package_concurrency) polls the next future of the
\* stream, in manifest order, while it holds fewer than its limit
StartPackage ==
    /\ pc = "fetching"
    /\ \E i \in 1..Len(workers) :
          /\ workers[i].st = "queued"
          /\ \A j \in 1..(i - 1) : workers[j].st # "queued"
          /\ Cardinality(InFlightPackages)
                < package_concurrency(max_concurrent, Len(mem.manifest))
          /\ workers' = [workers EXCEPT ![i].st = "listing"]
    /\ UNCHANGED <<manifest, lock, txn, pc, cmd, ret, rtx, tx, mem, result,
                   wstage, wfail, recres, rsnap, crash, taint, net, platform,
                   faults, start, max_concurrent, outcomes, events, count>>

\* get_releases returns: an error ends the package; a listing (one of
\* can_list[i] for package i) is filtered, and with nothing to download the
\* package is complete
ListReleases(can_list) ==
    /\ pc = "fetching"
    /\ \E i \in 1..Len(workers) :
          /\ workers[i].st = "listing"
          /\ \/ /\ workers' = [workers EXCEPT ![i].st = "done"]
                /\ outcomes' = Append(outcomes,
                                      [index |-> i, outcome |-> FailedOutcome])
             \/ \E releases \in can_list[i] :
                   LET w == workers[i]
                       new_releases ==
                           filter_new(releases,
                                      existing_versions(w.existing_package))
                       listed == [w EXCEPT !.releases = releases,
                                           !.new_releases = new_releases]
                   IN  IF new_releases = <<>>
                       THEN /\ workers' = [workers EXCEPT
                                              ![i] = [listed EXCEPT !.st = "done"]]
                            /\ outcomes' = Append(outcomes,
                                  [index |-> i,
                                   outcome |-> PackageFetchResult(
                                       mem.manifest[i], listed, <<>>)])
                       ELSE /\ workers' = [workers EXCEPT
                                  ![i] = [listed EXCEPT !.st = "downloading"]]
                            /\ outcomes' = outcomes
    /\ UNCHANGED <<manifest, lock, txn, pc, cmd, ret, rtx, tx, mem, result,
                   wstage, wfail, recres, rsnap, crash, taint, net, platform,
                   faults, start, max_concurrent, events, count>>

\* get_releases against an upstream that can list anything
GetReleases == ListReleases([i \in 1..Len(workers) |-> UpstreamListings])

\* download_assets_impl: buffer_unordered(download_concurrency) polls the
\* next download of new_releases while it holds fewer than its limit
StartDownload ==
    /\ pc = "fetching"
    /\ \E i \in 1..Len(workers) :
          /\ workers[i].st = "downloading"
          /\ workers[i].started < Len(workers[i].new_releases)
          /\ Cardinality(workers[i].inflight)
                < per_package_download_concurrency(max_concurrent,
                                                   Len(mem.manifest))
          /\ workers' = [workers EXCEPT
                ![i].started = @ + 1,
                ![i].inflight = @ \cup {workers[i].started + 1}]
    /\ UNCHANGED <<manifest, lock, txn, pc, cmd, ret, rtx, tx, mem, result,
                   wstage, wfail, recres, rsnap, crash, taint, net, platform,
                   faults, start, max_concurrent, outcomes, events, count>>

\* one download in flight completes, whichever; the release is accepted
\* when the download, parse_package_manifest and validate_package_manifest
\* all return Ok. The last result completes the package.
FinishDownload ==
    /\ pc = "fetching"
    /\ \E i \in 1..Len(workers) :
       \E k \in workers[i].inflight :
       \E step \in {"ok", "download", "parse", "validate"} :
          LET w == workers[i]
              results == Append(w.results,
                                [release |-> k, ok |-> step = "ok"])
              next == [w EXCEPT !.inflight = @ \ {k}, !.results = results]
          IN  IF Len(results) = Len(w.new_releases)
              THEN /\ workers' = [workers EXCEPT
                                     ![i] = [next EXCEPT !.st = "done"]]
                   /\ outcomes' = Append(outcomes,
                         [index |-> i,
                          outcome |-> PackageFetchResult(mem.manifest[i],
                                                         next, results)])
              ELSE /\ workers' = [workers EXCEPT ![i] = next]
                   /\ outcomes' = outcomes
    /\ UNCHANGED <<manifest, lock, txn, pc, cmd, ret, rtx, tx, mem, result,
                   wstage, wfail, recres, rsnap, crash, taint, net, platform,
                   faults, start, max_concurrent, events, count>>

RECURSIVE SortFromIndex(_, _, _)
SortFromIndex(os, k, n) ==
    IF k > n THEN <<>>
    ELSE SelectSeq(os, LAMBDA o : o.index = k) \o SortFromIndex(os, k + 1, n)

\* sort_by_index that leaves the outcomes in completion order
sort_by_index_Unsorted(os) == os

\* outcomes.sort_by_key(|(index, _)| *index)
sort_by_index(os) == SortFromIndex(os, 1, Len(os))

RECURSIVE ApplyOutcomes_SkipsListingErrors(_, _)
\* a loop that passes over the packages whose listing failed
ApplyOutcomes_SkipsListingErrors(os, acc) ==
    IF os = <<>> THEN acc
    ELSE LET o == Head(os).outcome
             pos == PositionOfId(acc.pkgs, o.package_id)
         IN  IF o.err THEN ApplyOutcomes_SkipsListingErrors(Tail(os), acc)
             ELSE IF pos = 0 THEN [acc EXCEPT !.error = "ConfigValidation"]
             ELSE ApplyOutcomes_SkipsListingErrors(Tail(os),
                    [pkgs |-> [acc.pkgs EXCEPT ![pos].versions = o.versions],
                     events |-> Append(acc.events,
                                   [id |-> acc.pkgs[pos].id,
                                    existing |-> o.existing_count,
                                    new |-> o.new_count]),
                     total_failed |-> acc.total_failed + o.failed_count,
                     error |-> "none"])

RECURSIVE ApplyOutcomes(_, _)
\* the loop over the sorted outcomes: `?` returns at the first Err; else the
\* package's versions are replaced, on_done is called, failed_count is added
ApplyOutcomes(os, acc) ==
    IF os = <<>> THEN acc
    ELSE LET o == Head(os).outcome
             pos == PositionOfId(acc.pkgs, o.package_id)
         IN  IF o.err THEN [acc EXCEPT !.error = "GitHub"]
             ELSE IF pos = 0 THEN [acc EXCEPT !.error = "ConfigValidation"]
             ELSE ApplyOutcomes(Tail(os),
                    [pkgs |-> [acc.pkgs EXCEPT ![pos].versions = o.versions],
                     events |-> Append(acc.events,
                                   [id |-> acc.pkgs[pos].id,
                                    existing |-> o.existing_count,
                                    new |-> o.new_count]),
                     total_failed |-> acc.total_failed + o.failed_count,
                     error |-> "none"])

\* FetchCollect that leaves the stored manifest_hash as it was loaded
FetchCollect_KeepsStoredHash ==
    /\ pc = "fetching"
    /\ Len(outcomes) = Len(workers)
    /\ LET done == ApplyOutcomes(sort_by_index(outcomes),
                      [pkgs |-> mem.lock.pkgs, events |-> <<>>,
                       total_failed |-> 0, error |-> "none"])
       IN  /\ events' = done.events
           /\ IF done.error # "none"
              THEN /\ Exit(done.error)
                   /\ mem' = [mem EXCEPT !.lock.pkgs = done.pkgs]
                   /\ count' = 0
              ELSE IF done.total_failed > 0
              THEN /\ Exit("FetchPartialFailure")
                   /\ mem' = [mem EXCEPT !.lock.pkgs = done.pkgs]
                   /\ count' = done.total_failed
              ELSE /\ mem' = [mem EXCEPT !.lock.pkgs = done.pkgs]
                   /\ pc' = "fetch_save"
                   /\ result' = result
                   /\ count' = 0
    /\ UNCHANGED <<manifest, lock, txn, cmd, ret, rtx, tx, wstage, wfail,
                   recres, rsnap, crash, taint, net, platform, faults, start,
                   max_concurrent, workers, outcomes>>

\* the stream is collected: the sort, the loop, the FetchPartialFailure
\* check; on Ok commands::fetch puts the gate's hash in and goes on to save
FetchCollect ==
    /\ pc = "fetching"
    /\ Len(outcomes) = Len(workers)
    /\ LET done == ApplyOutcomes(sort_by_index(outcomes),
                      [pkgs |-> mem.lock.pkgs, events |-> <<>>,
                       total_failed |-> 0, error |-> "none"])
       IN  /\ events' = done.events
           /\ IF done.error # "none"
              THEN /\ Exit(done.error)
                   /\ mem' = [mem EXCEPT !.lock.pkgs = done.pkgs]
                   /\ count' = 0
              ELSE IF done.total_failed > 0
              THEN /\ Exit("FetchPartialFailure")
                   /\ mem' = [mem EXCEPT !.lock.pkgs = done.pkgs]
                   /\ count' = done.total_failed
              ELSE /\ mem' = [mem EXCEPT
                                 !.lock = [hash |-> mem.hash, pkgs |-> done.pkgs]]
                   /\ pc' = "fetch_save"
                   /\ result' = result
                   /\ count' = 0
    /\ UNCHANGED <<manifest, lock, txn, cmd, ret, rtx, tx, wstage, wfail,
                   recres, rsnap, crash, taint, net, platform, faults, start,
                   max_concurrent, workers, outcomes>>

(* ---------------------- generate, list, info -------------------------- *)

(* --------------------------- the VPM index ---------------------------- *)

\* VpmOutput::from_manifest: one entry per manifest package, in manifest
\* order, with no versions yet (an IndexMap is its entries in insertion order)
from_manifest(m) ==
    [i \in 1..Len(m) |-> [key |-> m[i].id, versions |-> <<>>]]

\* IndexMap::insert: a key already present keeps its place and takes the new
\* value, a new key goes to the end
insert(map, k, v) ==
    IF \E i \in 1..Len(map) : map[i].key = k
    THEN [i \in 1..Len(map) |->
             IF map[i].key = k THEN [map[i] EXCEPT !.value = v] ELSE map[i]]
    ELSE Append(map, [key |-> k, value |-> v])

\* to_output_version: the fields of locked_version.manifest, copied one by
\* one; the package.json of a release is told from the others by the release
\* (its tag) whose zip its url names
to_output_version(locked_version) ==
    [version |-> locked_version.version, url |-> locked_version.tag]

RECURSIVE OutputVersions(_, _)
\* the loop over locked_pkg.versions of generate_from_lockfile
OutputVersions(versions, acc) ==
    IF versions = <<>> THEN acc
    ELSE OutputVersions(Tail(versions),
                        insert(acc, Head(versions).version,
                               to_output_version(Head(versions))))

\* Lockfile::get_package: the first record of the id
get_package(pkgs, id) == pkgs[PositionOfId(pkgs, id)]

\* generate_from_lockfile on its Ok path (every manifest package has a
\* record): the versions of each package's record go into its entry
generate_from_lockfile(m, l) ==
    [i \in 1..Len(m) |->
        [from_manifest(m)[i] EXCEPT
            !.versions = OutputVersions(get_package(l.pkgs, m[i].id).versions,
                                        <<>>)]]

\* generate that asks only for a lockfile with packages, not for a record of
\* every manifest package
GenerateBody_SkipsCoverage ==
    /\ pc = "body" /\ cmd.name = "generate"
    /\ IF \/ ~lock.ex
          \/ (mem.lock.pkgs = <<>> /\ mem.manifest # <<>>)
       THEN Exit("ConfigValidation")
       ELSE \E r \in {"ok", "OutputWrite"} : Exit(r)
    /\ UNCHANGED <<manifest, lock, txn, cmd, ret, rtx, tx, mem, wstage, wfail,
                   recres, rsnap, crash, taint, hist>>

\* commands::generate after the gate: the lockfile must exist and cover the
\* manifest; then the index is written (a file outside the pair)
GenerateBody ==
    /\ pc = "body" /\ cmd.name = "generate"
    /\ IF \/ ~lock.ex
          \/ (mem.lock.pkgs = <<>> /\ mem.manifest # <<>>)
          \/ \E i \in 1..Len(mem.manifest) :
                mem.manifest[i].id \notin IdsOf(mem.lock.pkgs)
       THEN Exit("ConfigValidation") /\ output' = output
       ELSE /\ \E r \in {"ok", "OutputWrite"} : Exit(r)
            /\ output' = generate_from_lockfile(mem.manifest, mem.lock)
    /\ UNCHANGED <<manifest, lock, txn, cmd, ret, rtx, tx, mem, wstage, wfail,
                   recres, rsnap, crash, taint, platform, faults, start,
                   fetcher, retry, github, atomic, again>>

\* commands::list (flag: a package id was given) and commands::info
ListInfoBody ==
    /\ pc = "body" /\ cmd.name \in {"list", "info"}
    /\ IF (cmd.name = "info" \/ cmd.flag) /\ ~cmd.pkg \in IdsOf(mem.manifest)
       THEN Exit("ConfigValidation")
       ELSE Exit("ok")
    /\ UNCHANGED <<manifest, lock, txn, cmd, ret, rtx, tx, mem, wstage, wfail,
                   recres, rsnap, crash, taint, hist>>

(* ------------------------------- lock --------------------------------- *)

\* main::run for lock (flag: --check); it recovers before anything else
BeginLock ==
    /\ pc = "idle"
    /\ \E f \in BOOLEAN : cmd' = [name |-> "lock", pkg |-> "a", flag |-> f]
    /\ pc' = "rec_load" /\ ret' = "lock"
    /\ start' = [m |-> manifest, l |-> lock, t |-> txn]
    /\ UNCHANGED <<fetcher, net>>
    /\ UNCHANGED <<platform, manifest, lock, txn, rtx, tx, mem, result, wstage,
                   wfail, recres, rsnap, crash, taint, faults>>

\* LockCheck for which a lockfile without a stored hash matches
LockCheck_AcceptsMissingHash ==
    /\ pc = "lk_check"
    /\ LET m == ParseManifest(manifest)
           initial_hash == compute_manifest_hash_from_manifest(m)
           lockfile == load_or_default(lock)
           is_match == lockfile.hash = NoHash \/ lockfile.hash = initial_hash
       IN  IF ~manifest.ex \/ ~lock.ex
           THEN Exit("ConfigValidation") /\ mem' = mem
           ELSE IF cmd.flag
           THEN /\ mem' = mem
                /\ IF is_match THEN Exit("ok")
                   ELSE Exit("ManifestHashMismatch")
           ELSE IF is_match THEN Exit("ok") /\ mem' = mem
           ELSE IF ~ManifestValid(m)
           THEN Exit("ConfigValidation") /\ mem' = mem
           ELSE /\ mem' = [manifest |-> m, lock |-> lockfile,
                           hash |-> initial_hash]
                /\ pc' = "lk_verify"
                /\ result' = result
    /\ crash' = NoCrash
    /\ rtx' = NoTx
    /\ UNCHANGED <<manifest, lock, txn, cmd, ret, tx, wstage, wfail,
                   recres, rsnap, taint, hist>>

\* the two existence checks, compute_manifest_hash (no validation),
\* Lockfile::load, is_match; --check stops here, and so does a match
LockCheck ==
    /\ pc = "lk_check"
    /\ LET m == ParseManifest(manifest)
           initial_hash == compute_manifest_hash_from_manifest(m)
           lockfile == load_or_default(lock)
           is_match == lockfile.hash # NoHash /\ lockfile.hash = initial_hash
       IN  IF ~manifest.ex \/ ~lock.ex
           THEN Exit("ConfigValidation") /\ mem' = mem
           ELSE IF cmd.flag
           THEN /\ mem' = mem
                /\ IF is_match THEN Exit("ok")
                   ELSE Exit("ManifestHashMismatch")
           ELSE IF is_match THEN Exit("ok") /\ mem' = mem
           ELSE IF ~ManifestValid(m)
           THEN Exit("ConfigValidation") /\ mem' = mem
           ELSE /\ mem' = [manifest |-> m, lock |-> lockfile,
                           hash |-> initial_hash]
                /\ pc' = "lk_verify"
                /\ result' = result
    /\ crash' = NoCrash
    /\ rtx' = NoTx
    /\ UNCHANGED <<manifest, lock, txn, cmd, ret, tx, wstage, wfail,
                   recres, rsnap, taint, hist>>

\* LockVerify that does not hash the manifest again after verification
LockVerify_KeepsInitialHash ==
    /\ pc = "lk_verify"
    /\ \/ /\ mem.manifest # <<>>
          /\ Exit("RepositoryNotFound") /\ mem' = mem
       \/ /\ mem' = [mem EXCEPT !.lock.hash = mem.hash]
          /\ pc' = "lk_save"
          /\ result' = result
    /\ UNCHANGED <<manifest, lock, txn, cmd, ret, rtx, tx, wstage, wfail,
                   recres, rsnap, crash, taint, hist>>

\* LockVerify that stores the hash it finds after verification, whatever
\* the hash before was
LockVerify_StoresFinalHash ==
    /\ pc = "lk_verify"
    /\ \/ /\ mem.manifest # <<>>
          /\ Exit("RepositoryNotFound") /\ mem' = mem
       \/ IF ~manifest.ex THEN Exit("FileRead") /\ mem' = mem
          ELSE /\ mem' = [mem EXCEPT !.lock.hash =
                     compute_manifest_hash_from_manifest(ParseManifest(manifest))]
               /\ pc' = "lk_save"
               /\ result' = result
    /\ UNCHANGED <<manifest, lock, txn, cmd, ret, rtx, tx, wstage, wfail,
                   recres, rsnap, crash, taint, hist>>

\* verify_repositories returned; the manifest is hashed again from disk
LockVerify ==
    /\ pc = "lk_verify"
    /\ \/ /\ mem.manifest # <<>>
          /\ Exit("RepositoryNotFound") /\ mem' = mem
       \/ LET final_hash ==
                 compute_manifest_hash_from_manifest(ParseManifest(manifest))
          IN  IF ~manifest.ex THEN Exit("FileRead") /\ mem' = mem
              ELSE IF final_hash # mem.hash
              THEN Exit("ManifestHashMismatch") /\ mem' = mem
              ELSE /\ mem' = [mem EXCEPT !.lock.hash = final_hash]
                   /\ pc' = "lk_save"
                   /\ result' = result
    /\ UNCHANGED <<manifest, lock, txn, cmd, ret, rtx, tx, wstage, wfail,
                   recres, rsnap, crash, taint, hist>>

LockSave == LockfileSave("lk_save")

(* ------------------------------- init --------------------------------- *)

\* Manifest::new(vpm): no packages
Manifest_new == <<>>

\* the pair init commits
InitLock ==
    [hash |-> compute_manifest_hash_from_manifest(Manifest_new), pkgs |-> <<>>]

\* commands::init (flag: --force; pkg: the answer to "Overwrite?", or
\* "outside" for an --id that fails validation).  With --force an existing
\* log is deleted, not replayed, before save_manifest_and_lock.
BeginInit ==
    /\ pc = "idle"
    /\ \E f \in BOOLEAN, a \in {"yes", "no", "outside"} :
          /\ cmd' = [name |-> "init", pkg |-> a, flag |-> f]
          /\ IF manifest.ex /\ ~f /\ a = "no"
             THEN Exit("ok") /\ UNCHANGED <<mem, ret>>
             ELSE IF a = "outside"
             THEN Exit("InvalidPackageId") /\ UNCHANGED <<mem, ret>>
             ELSE IF f /\ txn.kind # "none"
             THEN /\ pc' = "init_rm"
                  /\ mem' = [mem EXCEPT !.manifest = Manifest_new,
                                        !.lock = InitLock]
                  /\ UNCHANGED <<result, ret>>
             ELSE CallSave(Manifest_new, InitLock) /\ result' = result
    /\ start' = [m |-> manifest, l |-> lock, t |-> txn]
    /\ UNCHANGED <<fetcher, net>>
    /\ UNCHANGED <<platform, manifest, lock, txn, rtx, tx, wstage, wfail,
                   recres, rsnap, crash, taint, faults>>

\* InitRemoveLog that goes on to save_manifest_and_lock with the log in place
InitRemoveLog_KeepsLog ==
    /\ pc = "init_rm"
    /\ pc' = "rec_load" /\ ret' = "save"
    /\ UNCHANGED <<manifest, lock, txn, cmd, rtx, tx, mem, result, wstage,
                   wfail, recres, rsnap, crash, taint, hist>>

\* std::fs::remove_file(&tx_path) of init --force
InitRemoveLog ==
    /\ pc = "init_rm"
    /\ \/ /\ Exit("FileWrite")
          /\ UNCHANGED <<txn, ret, crash, taint>>
       \/ /\ txn' = NoTx
          /\ crash' = NoCrash
          /\ taint' = FALSE
          /\ pc' = "rec_load" /\ ret' = "save"
          /\ result' = result
    /\ UNCHANGED <<manifest, lock, cmd, rtx, tx, mem, wstage, wfail, recres,
                   rsnap, hist>>

(* ------------------- validate, completions --------------------------- *)

\* the commands that never look at the manifest, the lockfile or the log
BeginOther ==
    /\ pc = "idle"
    /\ \E n \in {"validate", "completions"} :
          /\ cmd' = [name |-> n, pkg |-> "a", flag |-> FALSE]
          /\ \/ Exit("ok")
             \/ n = "validate" /\ Exit("UrlValidation")
    /\ start' = [m |-> manifest, l |-> lock, t |-> txn]
    /\ UNCHANGED <<fetcher, net>>
    /\ UNCHANGED <<platform, manifest, lock, txn, ret, rtx, tx, mem, wstage,
                   wfail, recres, rsnap, crash, taint, faults>>

(* ------------------ process exit, crash, hand edits ------------------- *)

\* the process ends; its memory is gone
Finish ==
    /\ pc = "exit"
    /\ pc' = "idle"
    /\ cmd' = NoCmd /\ ret' = "none" /\ rtx' = NoTx /\ tx' = NoTx
    /\ mem' = NoMem /\ result' = "none" /\ wstage' = "start"
    /\ wfail' = "none" /\ recres' = "none" /\ rsnap' = NoSnap
    /\ start' = NoSnap
    /\ crash' = (IF result = "Unresolved" THEN NoCrash ELSE crash)
    /\ output' = NoOutput
    /\ UNCHANGED <<fetcher, retry, github, atomic, again>>
    /\ UNCHANGED <<platform, manifest, lock, txn, taint, faults>>

\* where save_manifest_and_lock is between building its log and returning
InSave ==
    \/ pc \in {"sv_log", "sv_wm", "sv_wl", "sv_rm"}
    \/ (ret = "save_err" /\ pc \in {"rec_load", "rec_wm", "rec_wl", "rec_rm"})

\* the process is killed between two file-system operations
Crash ==
    /\ pc \notin {"idle", "exit"}
    /\ faults < MaxFaults
    /\ faults' = faults + 1
    /\ crash' = (IF InSave
                 THEN [on |-> TRUE, tx |-> tx, m |-> manifest, l |-> lock]
                 ELSE crash)
    /\ pc' = "idle"
    /\ cmd' = NoCmd /\ ret' = "none" /\ rtx' = NoTx /\ tx' = NoTx
    /\ mem' = NoMem /\ result' = "none" /\ wstage' = "start"
    /\ wfail' = "none" /\ recres' = "none" /\ rsnap' = NoSnap
    /\ start' = NoSnap
    /\ output' = NoOutput
    /\ UNCHANGED <<fetcher, retry, github, atomic, again>>
    /\ UNCHANGED <<platform, manifest, lock, txn, taint>>

\* what a user's editor can leave in voyager.toml
HandManifests ==
    {[ex |-> TRUE, pkgs |-> <<>>, fmt |-> "hand"],
     [ex |-> TRUE, pkgs |-> <<Package("a", "o/r")>>, fmt |-> "hand"],
     [ex |-> TRUE, pkgs |-> <<Package("a", "o/r"), Package("a", "o/r")>>,
      fmt |-> "hand"],
     NoManifest}

\* a hand edit of one file, between two commands or while lock waits for
\* the upstream
Edit ==
    /\ pc \in {"idle", "lk_verify"}
    /\ faults < MaxFaults
    /\ faults' = faults + 1
    /\ \/ /\ manifest' \in HandManifests \ {manifest}
          /\ UNCHANGED <<lock, txn>>
       \/ /\ lock.ex
          /\ lock' \in {NoLock, [lock EXCEPT !.hash = WrongHash],
                        [lock EXCEPT !.hash = NoHash]} \ {lock}
          /\ UNCHANGED <<manifest, txn>>
       \/ /\ pc = "idle"
          /\ txn' = GarbageTx /\ txn # GarbageTx
          /\ UNCHANGED <<manifest, lock>>
    /\ taint' = (taint \/ txn.kind # "none" \/ txn'.kind # "none")
    /\ crash' = NoCrash
    /\ UNCHANGED <<fetcher, net>>
    /\ UNCHANGED <<platform, pc, cmd, ret, rtx, tx, mem, result, wstage, wfail,
                   recres, rsnap, start>>

(* --------------------------- specification ---------------------------- *)

Next ==
    \/ BeginGated \/ Gate \/ AddBody \/ RemoveBody \/ FetchBody \/ FetchSave
    \/ GenerateBody \/ ListInfoBody
    \/ BeginLock \/ LockCheck \/ LockVerify \/ LockSave
    \/ BeginInit \/ InitRemoveLog \/ BeginOther
    \/ RecLoad \/ RecWriteManifest \/ RecWriteLock \/ RecRemoveLog
    \/ SaveRead \/ SaveWriteLog \/ SaveWriteManifest \/ SaveWriteLock
    \/ SaveRemoveLog
    \/ Finish \/ Crash \/ Edit

Spec == Init /\ [][Next]_vars

\* init in a directory that holds none of the three files
InitFirst == BeginInit /\ ~manifest.ex /\ ~lock.ex /\ txn = NoTx

\* the tool alone: init on a fresh directory, then any commands, crashes
\* included, and no hand edit. Without a hand edit lock never finds a hash to
\* accept, so its verification and save steps have no part in it.
NextToolOnly ==
    \/ InitFirst
    \/ BeginGated \/ Gate \/ AddBody \/ RemoveBody \/ FetchBody \/ FetchSave
    \/ GenerateBody \/ ListInfoBody
    \/ BeginLock \/ LockCheck
    \/ RecLoad \/ RecWriteManifest \/ RecWriteLock \/ RecRemoveLog
    \/ SaveRead \/ SaveWriteLog \/ SaveWriteManifest \/ SaveWriteLock
    \/ SaveRemoveLog
    \/ Finish \/ Crash

SpecToolOnly == Init /\ [][NextToolOnly]_vars

\* the unix build alone
InitUnix == Init /\ platform = "unix"
SpecUnix == InitUnix /\ [][Next]_vars

(* ------------------- the fetch command, step by step ------------------- *)

\* LockedVersion records of tags 1, v1 and 2
Locked1 == LockedVersion_new(Release(<<"1">>, TRUE))
LockedV1 == LockedVersion_new(Release(<<"v", "1">>, TRUE))
Locked2 == LockedVersion_new(Release(<<"2">>, TRUE))

LockedPackage(id, repository, versions) ==
    [id |-> id, repository |-> repository, versions |-> versions]

\* manifests a fetch can find: none to two packages, either order, and
\* package a moved to another repository
FetchManifests ==
    {<<>>,
     <<Package("a", "o/r")>>,
     <<Package("a", "o/s")>>,
     <<Package("a", "o/r"), Package("b", "o/b")>>,
     <<Package("b", "o/b"), Package("a", "o/r")>>}

\* the package lists of the lockfiles earlier commands can have left: one
\* record per id, versions as earlier fetches merged them; c is a package
\* the manifest lost since
FetchLockPackages ==
    {<<>>,
     <<LockedPackage("a", "o/r", <<Locked1>>)>>,
     <<LockedPackage("a", "o/r", <<Locked2, Locked1>>),
       LockedPackage("b", "o/b", <<>>)>>,
     <<LockedPackage("b", "o/b", <<Locked1>>),
       LockedPackage("a", "o/r", <<Locked1, Locked2>>)>>,
     <<LockedPackage("c", "o/c", <<Locked1>>),
       LockedPackage("a", "o/r", <<LockedV1, Locked1>>)>>}

\* the values of --max-concurrent that give every pair of limits a manifest
\* of two packages with two releases each can tell apart
FetchConcurrency == {1, 2, 4}

\* a manifest on disk, and either no lockfile or one that a default-mode
\* lock has brought up to the manifest's hash
InitFetch ==
    /\ platform \in Platforms
    /\ \E m \in FetchManifests :
          /\ manifest = serialize_manifest(m)
          /\ \/ lock = NoLock
             \/ \E pkgs \in FetchLockPackages :
                   lock = serialize_lock(
                             [hash |-> compute_manifest_hash_from_manifest(m),
                              pkgs |-> pkgs])
    /\ txn = NoTx
    /\ pc = "idle"
    /\ cmd = NoCmd
    /\ ret = "none"
    /\ rtx = NoTx
    /\ tx = NoTx
    /\ mem = NoMem
    /\ result = "none"
    /\ wstage = "start"
    /\ wfail = "none"
    /\ recres = "none"
    /\ rsnap = NoSnap
    /\ start = NoSnap
    /\ crash = NoCrash
    /\ taint = FALSE
    /\ faults = 0
    /\ max_concurrent \in FetchConcurrency
    /\ workers = <<>>
    /\ outcomes = <<>>
    /\ events = <<>>
    /\ count = 0
    /\ NetIdle

\* main::run for fetch
BeginFetch == BeginGated /\ cmd'.name = "fetch"

\* one run of voy fetch
NextFetch ==
    \/ BeginFetch
    \/ RecLoad
    \/ Gate
    \/ FetchStart
    \/ StartPackage
    \/ GetReleases
    \/ StartDownload
    \/ FinishDownload
    \/ FetchCollect
    \/ FetchSave

SpecFetch == InitFetch /\ [][NextFetch]_vars

\* parse_max_concurrent accepts 1 to 50
MaxConcurrentLimit == 50

\* a fetch with any accepted --max-concurrent, of one or two packages, on a
\* directory without a lockfile
InitLimits ==
    /\ platform = "unix"
    /\ \E m \in {<<Package("a", "o/r")>>,
                 <<Package("a", "o/r"), Package("b", "o/b")>>} :
          manifest = serialize_manifest(m)
    /\ lock = NoLock
    /\ txn = NoTx
    /\ pc = "idle"
    /\ cmd = NoCmd
    /\ ret = "none"
    /\ rtx = NoTx
    /\ tx = NoTx
    /\ mem = NoMem
    /\ result = "none"
    /\ wstage = "start"
    /\ wfail = "none"
    /\ recres = "none"
    /\ rsnap = NoSnap
    /\ start = NoSnap
    /\ crash = NoCrash
    /\ taint = FALSE
    /\ faults = 0
    /\ max_concurrent \in 1..MaxConcurrentLimit
    /\ workers = <<>>
    /\ outcomes = <<>>
    /\ events = <<>>
    /\ count = 0
    /\ NetIdle

SpecLimits == InitLimits /\ [][NextFetch]_vars

(* ------------------------- fetch, run again --------------------------- *)

\* what a repository of the upstream can list while it is fetched twice
RefetchListings ==
    {<<>>,
     <<Release(<<"1">>, TRUE)>>,
     <<Release(<<"2">>, TRUE), Release(<<"1">>, TRUE)>>,
     <<Release(<<"v", "1">>, TRUE), Release(<<"1">>, TRUE)>>,
     <<Release(<<"2">>, FALSE), Release(<<"v", "1">>, TRUE)>>}

\* the manifests that are fetched twice
RefetchManifests ==
    {<<Package("a", "o/r")>>,
     <<Package("a", "o/r"), Package("b", "o/b")>>,
     <<Package("b", "o/b"), Package("a", "o/r")>>}

\* as InitFetch, with an upstream that lists the same releases in every run
InitRefetch ==
    /\ platform \in Platforms
    /\ \E m \in RefetchManifests :
          /\ manifest = serialize_manifest(m)
          /\ \/ lock = NoLock
             \/ \E pkgs \in FetchLockPackages :
                   lock = serialize_lock(
                             [hash |-> compute_manifest_hash_from_manifest(m),
                              pkgs |-> pkgs])
    /\ txn = NoTx
    /\ pc = "idle"
    /\ cmd = NoCmd
    /\ ret = "none"
    /\ rtx = NoTx
    /\ tx = NoTx
    /\ mem = NoMem
    /\ result = "none"
    /\ wstage = "start"
    /\ wfail = "none"
    /\ recres = "none"
    /\ rsnap = NoSnap
    /\ start = NoSnap
    /\ crash = NoCrash
    /\ taint = FALSE
    /\ faults = 0
    /\ max_concurrent \in {1, 2}
    /\ workers = <<>>
    /\ outcomes = <<>>
    /\ events = <<>>
    /\ count = 0
    /\ max_retries = DefaultMaxRetries
    /\ attempt = 0
    /\ rq = "idle"
    /\ calls = <<>>
    /\ sent = NoneSent
    /\ slept = <<>>
    /\ verdict = NoVerdict
    /\ GitHubNew
    /\ NoWrites
    /\ output = NoOutput
    /\ upstream \in [RefetchRepos -> RefetchListings]
    /\ last_ok = FALSE

\* get_releases against the upstream as it stands
RefetchReleases ==
    ListReleases([i \in 1..Len(workers) |->
                     {upstream[mem.manifest[i].repository]}])

\* the fetch process ends; the next run finds the files it left
FinishFetch ==
    /\ pc = "exit"
    /\ pc' = "idle"
    /\ last_ok' = (result = "ok")
    /\ cmd' = NoCmd /\ ret' = "none" /\ rtx' = NoTx /\ tx' = NoTx
    /\ mem' = NoMem /\ result' = "none" /\ wstage' = "start"
    /\ wfail' = "none" /\ recres' = "none" /\ rsnap' = NoSnap
    /\ start' = NoSnap
    /\ UNCHANGED <<fetcher, retry, github, atomic, output, upstream>>
    /\ UNCHANGED <<platform, manifest, lock, txn, taint, faults, crash>>

\* voy fetch, run after run
NextRefetch ==
    \/ BeginFetch
    \/ RecLoad
    \/ Gate
    \/ FetchStart
    \/ StartPackage
    \/ RefetchReleases
    \/ StartDownload
    \/ FinishDownload
    \/ FetchCollect
    \/ FetchSave
    \/ FinishFetch

SpecRefetch == InitRefetch /\ [][NextRefetch]_vars

(* --------------------------- generate alone --------------------------- *)

\* the pair before and after `voy add b --repo o/r`, for a lockfile of
\* package a
BeforeAdd ==
    [m |-> <<Package("a", "o/r")>>,
     l |-> [hash |-> compute_manifest_hash_from_manifest(
                        <<Package("a", "o/r")>>),
            pkgs |-> <<LockedPackage("a", "o/r", <<Locked1>>)>>]]
AfterAdd ==
    [m |-> Append(BeforeAdd.m, Package("b", "o/r")),
     l |-> [hash |-> compute_manifest_hash_from_manifest(
                        Append(BeforeAdd.m, Package("b", "o/r"))),
            pkgs |-> BeforeAdd.l.pkgs]]

\* the log save_manifest_and_lock writes for that add
AddLog ==
    [kind |-> "log",
     old_manifest |-> serialize_manifest(BeforeAdd.m),
     old_lock |-> serialize_lock(BeforeAdd.l),
     new_manifest |-> serialize_manifest(AfterAdd.m),
     new_lock |-> serialize_lock(AfterAdd.l)]

\* what voy generate can find: a manifest with no lockfile or with a lockfile
\* of its hash, or the files a killed `voy add b` left behind: the log with
\* neither file, the manifest only, or both files replaced
InitGenerate ==
    /\ platform \in Platforms
    /\ \/ /\ txn = NoTx
          /\ \E m \in FetchManifests :
                /\ manifest = serialize_manifest(m)
                /\ \/ lock = NoLock
                   \/ \E pkgs \in FetchLockPackages :
                         lock = serialize_lock(
                                   [hash |->
                                       compute_manifest_hash_from_manifest(m),
                                    pkgs |-> pkgs])
       \/ /\ txn = AddLog
          /\ \/ manifest = AddLog.old_manifest /\ lock = AddLog.old_lock
             \/ manifest = AddLog.new_manifest /\ lock = AddLog.old_lock
             \/ manifest = AddLog.new_manifest /\ lock = AddLog.new_lock
    /\ pc = "idle"
    /\ cmd = NoCmd
    /\ ret = "none"
    /\ rtx = NoTx
    /\ tx = NoTx
    /\ mem = NoMem
    /\ result = "none"
    /\ wstage = "start"
    /\ wfail = "none"
    /\ recres = "none"
    /\ rsnap = NoSnap
    /\ start = NoSnap
    /\ crash = NoCrash
    /\ taint = FALSE
    /\ faults = 0
    /\ max_concurrent = DefaultMaxConcurrent
    /\ workers = <<>>
    /\ outcomes = <<>>
    /\ events = <<>>
    /\ count = 0
    /\ NetIdle

\* main::run for generate
BeginGenerate == BeginGated /\ cmd'.name = "generate"

\* one run of voy generate
NextGenerate ==
    \/ BeginGenerate
    \/ RecLoad
    \/ RecWriteManifest
    \/ RecWriteLock
    \/ RecRemoveLog
    \/ Gate
    \/ GenerateBody

SpecGenerate == InitGenerate /\ [][NextGenerate]_vars

(* ------------------------- retry and backoff -------------------------- *)

RETRY_DELAY_BASE_MS == 500
RETRY_DELAY_MAX_MS == 30000

Min(a, b) == IF a <= b THEN a ELSE b

\* every u64 from 2^30 up: the code only ever compares such a value with
\* RETRY_DELAY_MAX_MS
Huge == 1073741824

\* u32::saturating_sub
saturating_sub(a, b) == IF a >= b THEN a - b ELSE 0

\* 1u64 << e for e < 64
shl_u64(e) == IF e >= 30 THEN Huge ELSE 2^e

\* u64::saturating_mul
saturating_mul(a, b) ==
    IF a # 0 /\ b >= Huge \div a THEN Huge ELSE a * b

\* retry_backoff_delay: the exponent
backoff_exponent(n) == Min(saturating_sub(n, 1), 16)

\* retry_backoff_delay with the exponent taken as it comes: the shift of a
\* release build uses the low six bits of the exponent
retry_backoff_delay_UncappedExponent(n) ==
    LET exponent == saturating_sub(n, 1) % 64
        factor == shl_u64(exponent)
    IN Min(saturating_mul(RETRY_DELAY_BASE_MS, factor), RETRY_DELAY_MAX_MS)

\* retry_backoff_delay(attempt), in milliseconds
retry_backoff_delay(n) ==
    LET exponent == backoff_exponent(n)
        factor == shl_u64(exponent)
    IN Min(saturating_mul(RETRY_DELAY_BASE_MS, factor), RETRY_DELAY_MAX_MS)

\* parse_max_retries accepts 0 to 8
MaxRetriesLimit == 8

(* -------------------- GitHubClient: asset download -------------------- *)

\* what the server of an asset URL can answer: the request fails in
\* transport, or a status arrives and then the body is read
Transports == {"ok", "timeout", "connect", "connect_timeout", "request",
               "redirect"}
Statuses == {200, 204, 304, 400, 403, 404, 405, 429, 499, 500, 501, 503, 599}
Bodies == {"ok", "fail", "timeout"}
Replies ==
    [transport : Transports \ {"ok"}, status : {0}, body : {"none"}]
    \cup [transport : {"ok"}, status : Statuses, body : Bodies]

\* StatusCode::is_success, is_client_error, is_server_error
is_success(st) == st >= 200 /\ st <= 299
is_client_error(st) == st >= 400 /\ st <= 499
is_server_error(st) == st >= 500 /\ st <= 599

\* the reqwest::Error of a request that failed in transport
TransportErr(t) ==
    IF t = "redirect" THEN HttpErr("redirect", 0, FALSE, FALSE)
    ELSE HttpErr("request", 0, t \in {"timeout", "connect_timeout"},
                 t \in {"connect", "connect_timeout"})

\* fetch_raw: send, error_for_status, text
fetch_raw(reply) ==
    IF reply.transport # "ok" THEN TransportErr(reply.transport)
    ELSE IF is_client_error(reply.status) \/ is_server_error(reply.status)
    THEN HttpErr("status", reply.status, FALSE, FALSE)
    ELSE IF reply.body = "ok" THEN Ok
    ELSE HttpErr("body", 0, reply.body = "timeout", FALSE)

\* should_retry_download_error that retries whatever the status is
should_retry_download_error_AnyStatus(e) ==
    e.status # 0 \/ e.timeout \/ e.connect \/ e.kind = "request"

\* should_retry_download_error, of an Error::Http
should_retry_download_error(e) ==
    IF e.status # 0
    THEN is_server_error(e.status) \/ e.status = 429
    ELSE e.timeout \/ e.connect \/ e.kind = "request"

\* download_asset: download_with_retry enters its loop; the first
\* iteration does not sleep
DownloadAsset ==
    /\ rq = "idle"
    /\ attempt' = 0
    /\ rq' = "call"
    /\ UNCHANGED <<max_retries, calls, sent, slept, verdict>>
    /\ UNCHANGED <<files, fetcher, github, atomic, output, again, platform,
                   faults, start>>

\* download_with_retry: the sleep that opens every iteration but the first
DownloadSleep ==
    /\ rq = "sleep"
    /\ slept' = Append(slept, retry_backoff_delay(attempt))
    /\ rq' = "call"
    /\ UNCHANGED <<max_retries, attempt, calls, sent, verdict>>
    /\ UNCHANGED <<files, fetcher, github, atomic, output, again, platform,
                   faults, start>>

\* download_with_retry: one f().await and the match on its result
DownloadAttempt ==
    /\ rq = "call"
    /\ \E reply \in Replies :
          LET total_attempts == max_retries + 1
              out == fetch_raw(reply)
          IN /\ calls' = <<[method |-> "GET", range |-> FALSE, out |-> out]>>
             /\ sent' = [sent EXCEPT !.get = @ + 1]
             /\ IF out.ok
                THEN rq' = "done" /\ verdict' = out /\ attempt' = attempt
                ELSE IF \/ ~should_retry_download_error(out)
                        \/ attempt + 1 >= total_attempts
                THEN rq' = "done" /\ verdict' = out /\ attempt' = attempt
                ELSE /\ attempt' = attempt + 1
                     /\ rq' = "sleep"
                     /\ verdict' = verdict
    /\ UNCHANGED <<max_retries, slept>>
    /\ UNCHANGED <<files, fetcher, github, atomic, output, again, platform,
                   faults, start>>

\* one asset download with any accepted --max-retries
InitDownload ==
    /\ InitFiles
    /\ platform = "unix"
    /\ max_retries \in 0..MaxRetriesLimit
    /\ attempt = 0
    /\ rq = "idle"
    /\ calls = <<>>
    /\ sent = NoneSent
    /\ slept = <<>>
    /\ verdict = NoVerdict
    /\ GitHubNew
    /\ NoWrites
    /\ output = NoOutput
    /\ NoRefetch

NextDownload ==
    \/ DownloadAsset
    \/ DownloadSleep
    \/ DownloadAttempt

SpecDownload == InitDownload /\ [][NextDownload]_vars

(* ------------------- HttpClient: the URL validator -------------------- *)

\* Result<Response> of a send: the response with its status, or the error
Response(st) == [ok |-> TRUE, kind |-> "response", status |-> st,
                 timeout |-> FALSE, connect |-> FALSE]
send(reply) ==
    IF reply.transport = "ok" THEN Response(reply.status)
    ELSE TransportErr(reply.transport)

\* what a server can answer to a request whose body is not read
UrlReplies == {r \in Replies : r.body \in {"none", "ok"}}

\* the bool check_url_exists returns
Exists(b) == IF b THEN Ok ELSE HttpErr("false", 0, FALSE, FALSE)

\* should_fallback_to_get
should_fallback_to_get(st) == st \in {403, 405, 501}

\* the match on the HEAD result that tests is_client_error before anything
\* else
after_head_ClientErrorFirst(out) ==
    IF ~out.ok THEN "continue"
    ELSE IF is_success(out.status) THEN "true"
    ELSE IF is_client_error(out.status) THEN "false"
    ELSE IF should_fallback_to_get(out.status) THEN "get"
    ELSE "continue"

\* check_url_exists: the match on the result of the HEAD
after_head(out) ==
    IF ~out.ok THEN "continue"
    ELSE IF is_success(out.status) THEN "true"
    ELSE IF should_fallback_to_get(out.status) THEN "get"
    ELSE IF out.status = 429 THEN "continue"
    ELSE IF is_client_error(out.status) THEN "false"
    ELSE "continue"

\* check_url_exists_with_get that takes every 4xx, 429 too, for an answer
check_url_exists_with_get_NoRateLimit(out) ==
    IF ~out.ok THEN "continue"
    ELSE IF is_success(out.status) THEN "true"
    ELSE IF is_client_error(out.status) THEN "false"
    ELSE "continue"

\* check_url_exists_with_get: Some(true), Some(false) or None, read the way
\* its caller does
check_url_exists_with_get(out) ==
    IF ~out.ok THEN "continue"
    ELSE IF is_success(out.status) THEN "true"
    ELSE IF out.status = 429 THEN "continue"
    ELSE IF is_client_error(out.status) THEN "false"
    ELSE "continue"

\* a loop that runs one iteration more
last_attempt_OneMore(a, m) == a = m + 1

\* for attempt in 0..=max_retries: the iteration that has no successor
last_attempt(a, m) == a = m

\* check_url_exists: the way out of one iteration of the loop
UrlStep(way) ==
    CASE way = "true" ->
            rq' = "done" /\ verdict' = Exists(TRUE) /\ attempt' = attempt
      [] way = "false" ->
            rq' = "done" /\ verdict' = Exists(FALSE) /\ attempt' = attempt
      [] way = "get" ->
            rq' = "get" /\ verdict' = verdict /\ attempt' = attempt
      [] OTHER ->
            IF last_attempt(attempt, max_retries)
            THEN rq' = "done" /\ verdict' = Exists(FALSE)
                 /\ attempt' = attempt
            ELSE rq' = "sleep" /\ verdict' = verdict
                 /\ attempt' = attempt + 1

\* validate_urls_with_progress calls check_url_exists, which enters its
\* loop; the first iteration does not sleep
CheckUrl ==
    /\ rq = "idle"
    /\ attempt' = 0
    /\ rq' = "head"
    /\ UNCHANGED <<max_retries, calls, sent, slept, verdict>>
    /\ UNCHANGED <<files, fetcher, github, atomic, output, again, platform,
                   faults, start>>

\* check_url_exists: the sleep that opens every iteration but the first
UrlSleep ==
    /\ rq = "sleep"
    /\ slept' = Append(slept, retry_backoff_delay(attempt))
    /\ rq' = "head"
    /\ UNCHANGED <<max_retries, attempt, calls, sent, verdict>>
    /\ UNCHANGED <<files, fetcher, github, atomic, output, again, platform,
                   faults, start>>

\* check_url_exists: the HEAD of one iteration and the match on its result
UrlHead ==
    /\ rq = "head"
    /\ \E reply \in UrlReplies :
          LET out == send(reply)
          IN /\ calls' = <<[method |-> "HEAD", range |-> FALSE, out |-> out]>>
             /\ sent' = [sent EXCEPT !.head = @ + 1]
             /\ UrlStep(after_head(out))
    /\ UNCHANGED <<max_retries, slept>>
    /\ UNCHANGED <<files, fetcher, github, atomic, output, again, platform,
                   faults, start>>

\* check_url_exists_with_get, and the match of check_url_exists on it
UrlGet ==
    /\ rq = "get"
    /\ \E reply \in UrlReplies :
          LET out == send(reply)
          IN /\ calls' = Append(calls, [method |-> "GET", range |-> TRUE,
                                        out |-> out])
             /\ sent' = [sent EXCEPT !.get = @ + 1]
             /\ UrlStep(check_url_exists_with_get(out))
    /\ UNCHANGED <<max_retries, slept>>
    /\ UNCHANGED <<files, fetcher, github, atomic, output, again, platform,
                   faults, start>>

\* the check of one URL with any accepted --max-retries
InitUrl ==
    /\ InitFiles
    /\ platform = "unix"
    /\ max_retries \in 0..MaxRetriesLimit
    /\ attempt = 0
    /\ rq = "idle"
    /\ calls = <<>>
    /\ sent = NoneSent
    /\ slept = <<>>
    /\ verdict = NoVerdict
    /\ GitHubNew
    /\ NoWrites
    /\ output = NoOutput
    /\ NoRefetch

NextUrl ==
    \/ CheckUrl
    \/ UrlSleep
    \/ UrlHead
    \/ UrlGet

SpecUrl == InitUrl /\ [][NextUrl]_vars

\* every request ends, by an answer or by the client's timeout, and every
\* sleep ends
SpecUrlFair == SpecUrl /\ WF_vars(NextUrl)

(* ------------------- GitHubClient: the rate limit --------------------- *)

RATE_LIMIT_BUFFER == 10

\* the clock runs from 1 to MaxNow; a listing has at most MaxPages pages and
\* voy lock verifies at most MaxPages repositories
MaxNow == 4
MaxPages == 2

\* what GET /rate_limit can answer for the core resource
ProbeAnswers == [remaining : {10, 11}, reset : 1..(MaxNow + 1)]

\* the test of wait_for_rate_limit
must_wait(remaining, reset) ==
    remaining <= RATE_LIMIT_BUFFER /\ reset > 0 /\ reset > now

\* the request goes out: the counters and the clock at that moment
Sent(task, op) ==
    [task EXCEPT !.op = op,
                 !.pc = IF op = "download" THEN "download" ELSE "call",
                 !.last = [op |-> op,
                           due |-> /\ rate_limit_remaining' <= 10
                                   /\ rate_limit_reset' > now',
                           unset |-> rate_limit_remaining' = U64_MAX]]

\* wait_for_rate_limit that sleeps until the reset and no second longer
wait_for_rate_limit_UntilReset(task, remaining, reset) ==
    IF must_wait(remaining, reset)
    THEN [task EXCEPT !.pc = "sleep", !.wake = now + (reset - now)]
    ELSE Sent(task, task.op)

\* wait_for_rate_limit, having loaded the two counters, and the send that
\* follows it when it does not sleep
wait_for_rate_limit(task, remaining, reset) ==
    IF must_wait(remaining, reset)
    THEN [task EXCEPT !.pc = "sleep", !.wake = now + (reset - now + 1)]
    ELSE Sent(task, task.op)

github_rest ==
    <<files, fetcher, retry, atomic, output, again, platform, faults,
      start>>

\* history: what the step of a future adds to the client's record. answer
\* is the remaining quota a probe has just reported, U64_MAX when the step
\* had no probe; a request to the API counts, an asset download does not
Tracked(task, answer) ==
    [first |-> IF quota.first = U64_MAX THEN answer ELSE quota.first,
     calls |-> IF task.pc = "call" THEN quota.calls + 1 ELSE quota.calls,
     relief |-> \/ quota.relief
                \/ answer # U64_MAX /\ quota.first # U64_MAX
                \/ task.pc = "sleep"]

\* get_releases (per page) and verify_repository up to their first await:
\* check_and_update_rate_limit starts a probe, or leaves the counters alone
\* and wait_for_rate_limit follows at once
CheckRateLimit(t) ==
    /\ tasks[t].pc = "check"
    /\ UNCHANGED <<rate_limit_remaining, rate_limit_reset, now>>
    /\ IF \/ rate_limit_remaining <= RATE_LIMIT_BUFFER
          \/ rate_limit_remaining = U64_MAX
       THEN tasks' = [tasks EXCEPT ![t].pc = "probe"]
       ELSE tasks' = [tasks EXCEPT ![t] =
                         wait_for_rate_limit(tasks[t], rate_limit_remaining,
                                             rate_limit_reset)]
    /\ quota' = Tracked(tasks'[t], U64_MAX)
    /\ UNCHANGED github_rest

\* check_and_update_rate_limit: the probe is answered; update_rate_limit
\* stores the answer and wait_for_rate_limit follows at once
ProbeAnswer(t) ==
    /\ tasks[t].pc = "probe"
    /\ now' = now
    /\ \/ /\ tasks' = [tasks EXCEPT ![t].pc = "failed"]
          /\ UNCHANGED <<rate_limit_remaining, rate_limit_reset, quota>>
       \/ \E a \in ProbeAnswers :
             /\ rate_limit_remaining' = a.remaining
             /\ rate_limit_reset' = a.reset
             /\ tasks' = [tasks EXCEPT ![t] =
                             wait_for_rate_limit(tasks[t], a.remaining,
                                                 a.reset)]
             /\ quota' = Tracked(tasks'[t], a.remaining)
    /\ UNCHANGED github_rest

\* wait_for_rate_limit: the sleep is over, and the request goes out
Wake(t) ==
    /\ tasks[t].pc = "sleep"
    /\ now >= tasks[t].wake
    /\ UNCHANGED <<rate_limit_remaining, rate_limit_reset, now>>
    /\ tasks' = [tasks EXCEPT ![t] = Sent(tasks[t], tasks[t].op)]
    /\ quota' = Tracked(tasks'[t], U64_MAX)
    /\ UNCHANGED github_rest

\* the API answers. verify_repository returns, and voy lock goes on to its
\* next repository; get_releases fails, asks for the next page, or returns,
\* and fetch_package then sends the first asset download, if there is one
Answer(t, pages) ==
    /\ tasks[t].pc = "call"
    /\ UNCHANGED <<rate_limit_remaining, rate_limit_reset, now, quota>>
    /\ \/ tasks' = [tasks EXCEPT ![t].pc = "failed"]
       \/ /\ tasks[t].page < pages
          /\ tasks' = [tasks EXCEPT ![t].pc = "check", ![t].page = @ + 1]
       \/ tasks' = [tasks EXCEPT ![t].pc = "done"]
       \/ /\ tasks[t].op = "releases"
          /\ tasks' = [tasks EXCEPT ![t] = Sent(tasks[t], "download")]
    /\ UNCHANGED github_rest

ApiAnswer(t) == Answer(t, MaxPages)

\* download_asset returns
DownloadAnswer(t) ==
    /\ tasks[t].pc = "download"
    /\ tasks' = [tasks EXCEPT ![t].pc = "done"]
    /\ UNCHANGED <<rate_limit_remaining, rate_limit_reset, now, quota>>
    /\ UNCHANGED github_rest

\* a second passes
Tick ==
    /\ now < MaxNow
    /\ now' = now + 1
    /\ UNCHANGED <<rate_limit_remaining, rate_limit_reset, tasks, quota>>
    /\ UNCHANGED github_rest

\* a future that is about to make its first call
NewTask(op) == [NoTask EXCEPT !.op = op, !.pc = "check"]

\* a new client, used by the two package fetches of a voy fetch or by the
\* repository verification of voy lock or voy add
InitRate ==
    /\ InitFiles
    /\ platform = "unix"
    /\ max_retries = DefaultMaxRetries
    /\ attempt = 0
    /\ rq = "idle"
    /\ calls = <<>>
    /\ sent = NoneSent
    /\ slept = <<>>
    /\ verdict = NoVerdict
    /\ rate_limit_remaining = U64_MAX
    /\ rate_limit_reset = 0
    /\ now = 1
    /\ quota = NoQuota
    /\ NoWrites
    /\ output = NoOutput
    /\ NoRefetch
    /\ \/ tasks = [t \in RateTasks |-> NewTask("releases")]
       \/ tasks = [t \in RateTasks |->
                      IF t = "t1" THEN NewTask("verify") ELSE NoTask]

NextRate ==
    \/ \E t \in RateTasks : CheckRateLimit(t)
    \/ \E t \in RateTasks : ProbeAnswer(t)
    \/ \E t \in RateTasks : Wake(t)
    \/ \E t \in RateTasks : ApiAnswer(t)
    \/ \E t \in RateTasks : DownloadAnswer(t)
    \/ Tick

SpecRate == InitRate /\ [][NextRate]_vars

(* ------------------ GitHubClient: a run of many calls ----------------- *)

\* the API calls of the run: one more than the largest quota a probe
\* reports here, RATE_LIMIT_BUFFER + 1
QuotaCalls == RATE_LIMIT_BUFFER + 2

\* a new client and one future: get_releases of a repository with many
\* pages of releases, or voy lock verifying its repositories in turn
InitQuota ==
    /\ InitFiles
    /\ platform = "unix"
    /\ max_retries = DefaultMaxRetries
    /\ attempt = 0
    /\ rq = "idle"
    /\ calls = <<>>
    /\ sent = NoneSent
    /\ slept = <<>>
    /\ verdict = NoVerdict
    /\ rate_limit_remaining = U64_MAX
    /\ rate_limit_reset = 0
    /\ now = 1
    /\ quota = NoQuota
    /\ NoWrites
    /\ output = NoOutput
    /\ NoRefetch
    /\ \E op \in {"releases", "verify"} :
          tasks = [t \in RateTasks |->
                      IF t = "t1" THEN NewTask(op) ELSE NoTask]

\* the API answers a future that has up to QuotaCalls calls to make
LongAnswer(t) == Answer(t, QuotaCalls)

NextQuota ==
    \/ \E t \in RateTasks : CheckRateLimit(t)
    \/ \E t \in RateTasks : ProbeAnswer(t)
    \/ \E t \in RateTasks : Wake(t)
    \/ \E t \in RateTasks : LongAnswer(t)
    \/ \E t \in RateTasks : DownloadAnswer(t)
    \/ Tick

SpecQuota == InitQuota /\ [][NextQuota]_vars

(* ----------------------- write_atomic_file ---------------------------- *)

\* temp_path_for: the name is made of the pid and the process-wide counter
temp_path_for(pid, counter) == <<pid, counter>>

atomic_rest ==
    <<files, fetcher, retry, github, output, again, platform, faults,
      start>>

\* the calls that have a temp file and have not returned
InProgress(w) == writers[w].pc \in {"created", "exists", "remove", "rename"}

\* temp_path_for and File::create: the temp file exists, with none or some
\* of the bytes
CreateTemp(w) ==
    /\ writers[w].pc = "start"
    /\ LET pid == writers[w].pid
           temp_path == temp_path_for(pid, TEMP_FILE_COUNTER[pid])
       IN /\ TEMP_FILE_COUNTER' = [TEMP_FILE_COUNTER EXCEPT ![pid] = @ + 1]
          /\ writers' = [writers EXCEPT ![w].pc = "created",
                                        ![w].temp = temp_path]
          /\ dir' = [dir EXCEPT ![temp_path] =
                        [ex |-> TRUE, data |-> w, whole |-> FALSE]]
    /\ UNCHANGED <<previous, observed>>
    /\ UNCHANGED atomic_rest

\* write_all and sync_all: the temp file holds all the bytes
WriteAll(w) ==
    /\ writers[w].pc = "created"
    /\ dir' = [dir EXCEPT ![writers[w].temp] = WholeFile(w)]
    /\ writers' = [writers EXCEPT ![w].pc =
                      IF platform = "windows" THEN "exists" ELSE "rename"]
    /\ UNCHANGED <<TEMP_FILE_COUNTER, previous, observed>>
    /\ UNCHANGED atomic_rest

\* cfg(windows): path.exists()
PathExists(w) ==
    /\ writers[w].pc = "exists"
    /\ writers' = [writers EXCEPT ![w].pc =
                      IF dir[OutputPath].ex THEN "remove" ELSE "rename"]
    /\ UNCHANGED <<dir, TEMP_FILE_COUNTER, previous, observed>>
    /\ UNCHANGED atomic_rest

\* cfg(windows): fs::remove_file(path)?, an error when the file has gone
RemoveTarget(w) ==
    /\ writers[w].pc = "remove"
    /\ IF dir[OutputPath].ex
       THEN /\ dir' = [dir EXCEPT ![OutputPath] = NoFile]
            /\ writers' = [writers EXCEPT ![w].pc = "rename"]
       ELSE /\ dir' = dir
            /\ writers' = [writers EXCEPT ![w].pc = "failed"]
    /\ UNCHANGED <<TEMP_FILE_COUNTER, previous, observed>>
    /\ UNCHANGED atomic_rest

\* fs::rename(temp_path, path) and sync_parent_dir
Rename(w) ==
    /\ writers[w].pc = "rename"
    /\ dir' = [dir EXCEPT ![OutputPath] = dir[writers[w].temp],
                          ![writers[w].temp] = NoFile]
    /\ writers' = [writers EXCEPT ![w].pc = "done"]
    /\ UNCHANGED <<TEMP_FILE_COUNTER, previous, observed>>
    /\ UNCHANGED atomic_rest

\* the process of a call is killed: every call of that process stops where
\* it is
KillWriter(w) ==
    /\ InProgress(w)
    /\ writers' = [v \in Writers |->
                      IF writers[v].pid = writers[w].pid
                         /\ (InProgress(v) \/ writers[v].pc = "start")
                      THEN [writers[v] EXCEPT !.pc = "crashed"]
                      ELSE writers[v]]
    /\ UNCHANGED <<dir, TEMP_FILE_COUNTER, previous, observed>>
    /\ UNCHANGED atomic_rest

\* some process reads the output path
ReadOutput ==
    /\ observed' = dir[OutputPath]
    /\ observed' # observed
    /\ UNCHANGED <<dir, writers, TEMP_FILE_COUNTER, previous>>
    /\ UNCHANGED atomic_rest

\* two calls of write_atomic_file on one path, from one process or from
\* two, on a path that holds a file or does not
InitAtomic ==
    /\ InitFiles
    /\ max_retries = DefaultMaxRetries
    /\ attempt = 0
    /\ rq = "idle"
    /\ calls = <<>>
    /\ sent = NoneSent
    /\ slept = <<>>
    /\ verdict = NoVerdict
    /\ GitHubNew
    /\ output = NoOutput
    /\ NoRefetch
    /\ previous \in {NoFile, WholeFile("old")}
    /\ observed = previous
    /\ dir = [n \in {OutputPath} \cup TempPaths |->
                 IF n = OutputPath THEN previous ELSE NoFile]
    /\ \E p \in Pids :
          writers = [w \in Writers |->
                        [pid |-> IF w = "w1" THEN 1 ELSE p, pc |-> "start",
                         temp |-> OutputPath]]
    /\ TEMP_FILE_COUNTER = [p \in Pids |-> 0]

NextAtomic ==
    \/ \E w \in Writers : CreateTemp(w)
    \/ \E w \in Writers : WriteAll(w)
    \/ \E w \in Writers : PathExists(w)
    \/ \E w \in Writers : RemoveTarget(w)
    \/ \E w \in Writers : Rename(w)
    \/ \E w \in Writers : KillWriter(w)
    \/ ReadOutput

SpecAtomic == InitAtomic /\ [][NextAtomic]_vars

\* the same on the unix build
SpecAtomicUnix == (InitAtomic /\ platform = "unix") /\ [][NextAtomic]_vars

(* ------------------------- backoff on its own ------------------------- *)

\* the attempt numbers tried one by one; the powers of two and the largest
\* numbers are tried on top of them
MaxAttempt == 70

BackoffAttempts ==
    (0..MaxAttempt) \cup {2^k : k \in 7..30} \cup {2147483645}

\* two iterations in a row of a retry loop, from any attempt number: each
\* sleeps retry_backoff_delay(attempt)
RetrySleep ==
    /\ rq = "sleep"
    /\ slept' = Append(slept, retry_backoff_delay(attempt))
    /\ attempt' = attempt + 1
    /\ rq' = IF Len(slept) = 1 THEN "done" ELSE "sleep"
    /\ UNCHANGED <<max_retries, calls, sent, verdict>>
    /\ UNCHANGED <<files, fetcher, github, atomic, output, again, platform,
                   faults, start>>

InitBackoff ==
    /\ InitFiles
    /\ platform = "unix"
    /\ max_retries = DefaultMaxRetries
    /\ attempt \in BackoffAttempts
    /\ rq = "sleep"
    /\ calls = <<>>
    /\ sent = NoneSent
    /\ slept = <<>>
    /\ verdict = NoVerdict
    /\ GitHubNew
    /\ NoWrites
    /\ output = NoOutput
    /\ NoRefetch

SpecBackoff == InitBackoff /\ [][RetrySleep]_vars

(* ------------------------------ claims -------------------------------- *)

\* none of the three recoverable states
Unrecoverable(m, l, t) ==
    /\ ~(manifest_is_new(m, t) /\ lock_is_new(l, t))
    /\ ~(manifest_is_old(m, t) /\ lock_is_old(l, t))
    /\ ~(manifest_is_new(m, t) /\ lock_is_old(l, t))

\* recovery has just returned Ok to its caller
Recovered == pc \in {"gate", "lk_check", "sv_read"}

\* recovery has just refused the disk state
Refused == pc = "exit" /\ result = "Unresolved"

\* C1: after a crash inside save_manifest_and_lock (no hand edit since), once
\* the next run's recovery has returned, the pair is the new pair if both
\* files held the new contents at the crash, and the old pair otherwise.
C1_CrashLeavesOldOrNew ==
    (crash.on /\ (Recovered \/ Refused)) =>
        IF crash.m = crash.tx.new_manifest /\ crash.l = crash.tx.new_lock
        THEN manifest = crash.tx.new_manifest /\ lock = crash.tx.new_lock
        ELSE manifest = crash.tx.old_manifest /\ lock = crash.tx.old_lock

\* C3: while a log written by save_manifest_and_lock is on disk and nobody
\* edited the files by hand, the disk is in one of the three recoverable
\* states, and recovery never refuses it.
C3_LogImpliesRecoverable ==
    /\ (txn.kind = "log" /\ ~taint) =>
           ~Unrecoverable(manifest, lock, txn)
    /\ Refused => taint

\* the commit that is under way: the one the running save built, or the one
\* a crash interrupted
Commit == IF tx.kind = "log" THEN tx ELSE crash.tx

\* the order of save_manifest_and_lock: the manifest is written with the log
\* on disk, the lockfile with the log on disk and the manifest already new,
\* and the log is removed with both files new
WriteOrder ==
    /\ pc = "sv_wm" => txn = tx
    /\ pc = "sv_wl" => txn = tx /\ manifest = tx.new_manifest
    /\ pc = "sv_rm" =>
          txn = tx /\ manifest = tx.new_manifest /\ lock = tx.new_lock

\* C2 as stated: the order holds, and a disk that holds the commit's new
\* manifest with its old lockfile also holds the commit's log.
C2_AsStated ==
    /\ WriteOrder
    /\ ( /\ Commit.kind = "log"
         /\ manifest_is_new(manifest, Commit)
         /\ lock_is_old(lock, Commit) ) => txn = Commit

\* C2: the order holds, and a disk that holds the commit's new manifest
\* (which is not also the old one) with its old lockfile (which is not also
\* the new one) also holds the commit's log.
C2_LogBracketsTheWrites ==
    /\ WriteOrder
    /\ ( /\ Commit.kind = "log"
         /\ manifest_is_new(manifest, Commit)
         /\ ~manifest_is_old(manifest, Commit)
         /\ lock_is_old(lock, Commit)
         /\ ~lock_is_new(lock, Commit) ) => txn = Commit

\* the manifest is written and the lockfile is not: new manifest, old lockfile
C2_Witness ==
    /\ pc = "sv_wl" /\ txn = tx
    /\ manifest_is_new(manifest, tx) /\ ~manifest_is_old(manifest, tx)
    /\ lock_is_old(lock, tx) /\ ~lock_is_new(lock, tx)

\* recovery found a log and has come to its end with Ok
RecoveredLog == rtx.kind = "log" /\ (Recovered \/ recres = "ok")

\* C4 as stated: found with manifest = new and lockfile = old, recovery
\* leaves manifest = old_manifest, lockfile = old_lock and no log.
C4_AsStated ==
    ( /\ RecoveredLog
      /\ manifest_is_new(rsnap.m, rtx)
      /\ lock_is_old(rsnap.l, rtx) ) =>
        manifest = rtx.old_manifest /\ lock = rtx.old_lock /\ txn = NoTx

\* C4: the same, when the lockfile found is not also the log's new lockfile
\* (then both files are new and the first branch finalizes the commit).
C4_RollsBackPartialWrite ==
    ( /\ RecoveredLog
      /\ manifest_is_new(rsnap.m, rtx)
      /\ lock_is_old(rsnap.l, rtx)
      /\ ~lock_is_new(rsnap.l, rtx) ) =>
        manifest = rtx.old_manifest /\ lock = rtx.old_lock /\ txn = NoTx

\* recovery found a partial write and has rolled the manifest back
C4_Witness ==
    /\ RecoveredLog
    /\ manifest_is_new(rsnap.m, rtx) /\ lock_is_old(rsnap.l, rtx)
    /\ ~lock_is_new(rsnap.l, rtx)
    /\ rsnap.m # rtx.old_manifest
    /\ manifest = rtx.old_manifest /\ lock = rtx.old_lock /\ txn = NoTx

\* C5: found with both files new, or both old, recovery never changes the
\* manifest or the lockfile, and when it returns Ok the log is gone.
C5_FinalizeOnlyDeletesLog ==
    ( /\ rtx.kind = "log"
      /\ \/ manifest_is_new(rsnap.m, rtx) /\ lock_is_new(rsnap.l, rtx)
         \/ manifest_is_old(rsnap.m, rtx) /\ lock_is_old(rsnap.l, rtx) ) =>
        /\ manifest = rsnap.m
        /\ lock = rsnap.l
        /\ pc \in {"rec_rm", "exit"} \cup {"gate", "lk_check", "sv_read"}
        /\ (Recovered \/ recres = "ok") => txn = NoTx

\* recovery found a finished commit whose log remained, and has deleted it
C5_Witness ==
    /\ rtx.kind = "log" /\ Recovered
    /\ manifest_is_new(rsnap.m, rtx) /\ lock_is_new(rsnap.l, rtx)
    /\ ~manifest_is_old(rsnap.m, rtx)
    /\ manifest = rsnap.m /\ lock = rsnap.l /\ txn = NoTx

PairIsOld == manifest_is_old(manifest, tx) /\ lock_is_old(lock, tx)
PairIsNew == manifest_is_new(manifest, tx) /\ lock_is_new(lock, tx)

\* a write of the commit closure failed and save_manifest_and_lock returned
WriteFailed == pc = "exit" /\ wfail # "none"

C8_AsStated == (pc = "exit" /\ result = "ok") => txn = NoTx

\* init that stopped at "Overwrite?" answered no
InitAborted ==
    cmd.name = "init" /\ start.m.ex /\ ~cmd.flag /\ cmd.pkg = "no"

\* C8: no log at the successful exit of a command that works on the pair:
\* fetch, generate, add, remove, list, info, lock, and init unless aborted.
C8_NoLogAfterSuccess ==
    ( /\ pc = "exit" /\ result = "ok"
      /\ cmd.name \in GatedCmds \cup {"lock", "init"}
      /\ ~InitAborted ) => txn = NoTx

\* add succeeded after it drained a log left by an earlier run
C8_Witness ==
    /\ pc = "exit" /\ result = "ok" /\ cmd.name = "add"
    /\ start.t.kind = "log" /\ txn = NoTx

\* C9: fetch, generate, add, remove, list, info and lock load the files and
\* evaluate the gate only after recovery returned Ok, with no log left, and
\* what the gate compares is what is on disk then.
C9_DrainLoadGate ==
    /\ pc \in {"gate", "lk_check", "body", "lk_verify", "fetch_save", "lk_save"}
          => txn = NoTx /\ rsnap.t = start.t
    /\ pc = "body" =>
          /\ mem.manifest = ParseManifest(manifest)
          /\ mem.lock = load_or_default(lock)
          /\ mem.hash = compute_manifest_hash_from_manifest(mem.manifest)

\* a gated command reached its body after recovery rolled a log back
C9_Witness ==
    /\ pc = "body" /\ start.t.kind = "log" /\ txn = NoTx
    /\ manifest # start.m
    /\ mem.manifest = ParseManifest(manifest)

\* the lockfile stores a hash and it is not the hash of this manifest
Differs(m, l) ==
    /\ load_or_default(l).hash # NoHash
    /\ load_or_default(l).hash #
          compute_manifest_hash_from_manifest(ParseManifest(m))

\* check_and_load has returned ManifestHashMismatch
GateRejected ==
    pc = "exit" /\ result = "ManifestHashMismatch" /\ cmd.name \in GatedCmds

\* check_and_load has returned an error of Manifest::load
GateFailedToLoad ==
    /\ pc = "exit" /\ cmd.name \in GatedCmds /\ ret = "gate" /\ mem = NoMem
    /\ result \in {"FileRead", "ConfigValidation"}

\* the gate's verdict is the comparison of the files on disk
GateVerdict ==
    /\ pc = "body" => ~Differs(manifest, lock)
    /\ GateRejected => Differs(manifest, lock)
    /\ GateFailedToLoad =>
          ~manifest.ex \/ ~ManifestValid(ParseManifest(manifest))

\* C10 as stated: the gate rejects exactly a differing stored hash, and the
\* rejected command has changed neither file.
C10_AsStated ==
    /\ GateVerdict
    /\ GateRejected => manifest = start.m /\ lock = start.l

\* C10: the gate rejects exactly a differing stored hash; the rejected
\* command has changed neither file when no log was pending at its start, and
\* otherwise has at most rolled the pair back to the log's old pair.
C10_GateRejectsAndKeepsFiles ==
    /\ GateVerdict
    /\ GateRejected =>
          \/ manifest = start.m /\ lock = start.l
          \/ /\ start.t.kind = "log"
             /\ manifest = start.t.old_manifest /\ lock = start.t.old_lock

\* the gate rejected a command whose recovery had rolled the manifest back
C10_Witness ==
    /\ GateRejected /\ start.t.kind = "log"
    /\ manifest # start.m /\ manifest = start.t.old_manifest
    /\ Differs(manifest, lock)

\* the command began on a manifest that is not the one the lockfile's stored
\* hash was computed from, with no transaction log pending
BeganOnChangedManifest ==
    start.m.ex /\ Differs(start.m, start.l) /\ start.t.kind = "none"

\* a gated command has ended
GatedExit == pc = "exit" /\ cmd.name \in GatedCmds

\* C11 as stated: every gated command that begins on a changed manifest
\* fails with ManifestHashMismatch.
C11_AsStated ==
    (GatedExit /\ BeganOnChangedManifest) => result = "ManifestHashMismatch"

\* C11: a gated command that begins on a changed manifest never reaches its
\* body and leaves both files as they are; it fails with
\* ManifestHashMismatch unless it fails earlier, on its repository argument
\* or on the validation of the manifest.  lock --check fails the same way
\* and changes nothing; a default-mode lock that succeeds has stored the
\* hash of the manifest on disk.
C11_ChangedManifestIsRefused ==
    /\ (pc \in {"body", "fetch_save"} /\ cmd.name \in GatedCmds)
          => ~BeganOnChangedManifest
    /\ (ret = "save" /\ cmd.name \in GatedCmds) => ~BeganOnChangedManifest
    /\ (GatedExit /\ BeganOnChangedManifest) =>
          /\ manifest = start.m /\ lock = start.l /\ txn = NoTx
          /\ result =
                (IF cmd.pkg = "bad_repo" THEN "InvalidRepository"
                 ELSE IF ~ManifestValid(ParseManifest(manifest))
                      THEN "ConfigValidation"
                      ELSE "ManifestHashMismatch")
    /\ (pc = "exit" /\ cmd.name = "lock" /\ BeganOnChangedManifest) =>
          /\ cmd.flag =>
                /\ result = "ManifestHashMismatch"
                /\ manifest = start.m /\ lock = start.l
          /\ result = "ok" =>
                /\ ~cmd.flag
                /\ manifest.ex /\ ~Differs(manifest, lock)
                /\ load_or_default(lock).hash # NoHash

\* fetch began on a changed manifest and was refused by the gate
C11_Witness ==
    /\ GatedExit /\ BeganOnChangedManifest /\ cmd.name = "fetch"
    /\ result = "ManifestHashMismatch"
    /\ ParseManifest(manifest) # <<>>

\* the lockfile stores the hash of the manifest on disk
HashAgrees ==
    /\ manifest.ex /\ lock.ex
    /\ load_or_default(lock).hash =
          compute_manifest_hash_from_manifest(ParseManifest(manifest))

\* C12: with the tool alone at work, whenever recovery has returned Ok at
\* the head of a command and a manifest is on disk, the lockfile stores the
\* hash of that manifest; and no command ends with ManifestHashMismatch or
\* with an unresolved transaction.
C12_StoredHashFollowsManifest ==
    /\ (pc \in {"gate", "lk_check"} /\ manifest.ex) => HashAgrees
    /\ pc = "exit" => result \notin {"ManifestHashMismatch", "Unresolved"}

\* the lockfile as the fetch run loaded it, after the wipe if --wipe is given
PriorPackages ==
    IF cmd.flag THEN [i \in 1..Len(load_or_default(start.l).pkgs) |->
                        [load_or_default(start.l).pkgs[i] EXCEPT
                            !.versions = <<>>]]
    ELSE load_or_default(start.l).pkgs

\* the fetcher has reconciled the in-memory lockfile and nothing is applied yet
AfterReconcile == cmd.name = "fetch" /\ pc = "fetching"

\* C17: after reconciliation the lockfile's package ids, read in order, are
\* the manifest's package ids in order: the same order, no id outside the
\* manifest, a record for every manifest package.
C17_LockfileMirrorsManifest ==
    AfterReconcile =>
        /\ Len(mem.lock.pkgs) = Len(mem.manifest)
        /\ \A i \in 1..Len(mem.manifest) :
              mem.lock.pkgs[i].id = mem.manifest[i].id

\* a reconciliation that had two records in the other order
C17_Witness ==
    /\ AfterReconcile
    /\ Len(PriorPackages) = 2 /\ Len(mem.manifest) = 2
    /\ PriorPackages[1].id = mem.manifest[2].id
    /\ PriorPackages[2].id = mem.manifest[1].id

\* C18: after reconciliation every package carries the manifest's repository;
\* a package that had a record with another repository has no versions, a
\* package that had a record with the same repository has that record's
\* versions, and a package that had no record has no versions.
C18_ClearsExactlyOnRepositoryChange ==
    AfterReconcile =>
        \A i \in 1..Len(mem.manifest) :
           LET package == mem.manifest[i]
               locked == mem.lock.pkgs[i]
               prior == {k \in 1..Len(PriorPackages) :
                            PriorPackages[k].id = package.id}
           IN  /\ locked.repository = package.repository
               /\ prior = {} => locked.versions = <<>>
               /\ \A k \in prior :
                     locked.versions =
                        IF PriorPackages[k].repository # package.repository
                        THEN <<>>
                        ELSE PriorPackages[k].versions

\* a package with locked versions whose repository the manifest changed,
\* next to none that kept its versions
C18_Witness ==
    /\ AfterReconcile /\ ~cmd.flag
    /\ \E k \in 1..Len(PriorPackages) :
          /\ PriorPackages[k].id = mem.manifest[1].id
          /\ PriorPackages[k].repository # mem.manifest[1].repository
          /\ PriorPackages[k].versions # <<>>
          /\ mem.lock.pkgs[1].versions = <<>>


\* the releases of package i whose download, parse or validation failed
FailedReleases(i) == Len(SelectSeq(workers[i].results, LAMBDA r : ~r.ok))

RECURSIVE FailedUpTo(_)
FailedUpTo(i) == IF i = 0 THEN 0 ELSE FailedReleases(i) + FailedUpTo(i - 1)

\* the failed releases over all packages
TotalFailed == FailedUpTo(Len(workers))

\* some package's get_releases returned an error
ListingFailed ==
    \E k \in 1..Len(outcomes) : outcomes[k].outcome.err

FetchExit == pc = "exit" /\ cmd.name = "fetch"

\* C13 as stated: a fetch in which a release failed ends with
\* FetchPartialFailure, its count the number of failed releases, and the
\* lockfile on disk as it was.
C13_AsStated ==
    (FetchExit /\ TotalFailed > 0) =>
        /\ result = "FetchPartialFailure" /\ count = TotalFailed
        /\ lock = start.l

\* C13: a fetch in which a release failed never reaches the save and ends
\* with the lockfile and the manifest on disk as they were; its error is the
\* listing error if a package's release listing failed, and otherwise
\* FetchPartialFailure with the number of failed releases over all packages.
C13_FailedReleaseFailsFetch ==
    /\ (cmd.name = "fetch" /\ pc = "fetch_save") => TotalFailed = 0
    /\ (FetchExit /\ TotalFailed > 0) =>
          /\ lock = start.l /\ manifest = start.m /\ txn = NoTx
          /\ IF ListingFailed THEN result = "GitHub"
             ELSE result = "FetchPartialFailure" /\ count = TotalFailed

\* two packages with one failed release each, next to versions locked before
C13_Witness ==
    /\ FetchExit /\ result = "FetchPartialFailure" /\ count = 2
    /\ Len(workers) = 2
    /\ FailedReleases(1) = 1 /\ FailedReleases(2) = 1
    /\ \E i \in 1..Len(lock.pkgs) : lock.pkgs[i].versions # <<>>


\* the hash of the manifest the command found on disk
HashAtStart == compute_manifest_hash_from_manifest(ParseManifest(start.m))

\* C14: a fetch never writes the manifest or a transaction log; the hash
\* its gate captured is the hash of the manifest on disk; it reaches the save
\* exactly when no release and no listing failed, and with an empty package
\* list without any upstream call; the lockfile it then saves is the
\* reconciled one, one record per manifest package in manifest order, with
\* manifest_hash set to the captured hash, and after a successful save that
\* lockfile is the file on disk.
C14_CleanFetchSavesLockfile ==
    /\ (cmd.name = "fetch" /\ pc # "idle") => manifest = start.m /\ txn = NoTx
    /\ (cmd.name = "fetch" /\ pc \in {"body", "fetching", "fetch_save"}) =>
          mem.hash = HashAtStart
    /\ (cmd.name = "fetch" /\ pc \in {"fetching", "fetch_save"}
           /\ mem.manifest = <<>>) =>
          pc = "fetch_save" /\ workers = <<>> /\ outcomes = <<>>
    /\ (cmd.name = "fetch" /\ pc = "fetch_save") =>
          /\ TotalFailed = 0 /\ ~ListingFailed
          /\ mem.lock.hash = HashAtStart
          /\ Len(mem.lock.pkgs) = Len(mem.manifest)
          /\ \A i \in 1..Len(mem.manifest) :
                mem.lock.pkgs[i].id = mem.manifest[i].id
    /\ FetchExit =>
          (result \in {"ok", "FileWrite"} <=> TotalFailed = 0 /\ ~ListingFailed)
    /\ (FetchExit /\ result = "ok") =>
          /\ lock = serialize_lock(mem.lock)
          /\ load_or_default(lock).hash = HashAtStart

\* a fetch of two packages that found no lockfile and saved a new version
C14_Witness ==
    /\ FetchExit /\ result = "ok"
    /\ ~start.l.ex /\ lock.ex
    /\ Len(workers) = 2
    /\ \E i \in 1..Len(lock.pkgs) : lock.pkgs[i].versions # <<>>


\* the first entry of a version list that carries version string v, as a
\* list of 0 or 1 entries
FirstEntry(versions, v) ==
    LET I == {j \in 1..Len(versions) : versions[j].version = v}
    IN  IF I = {} THEN <<>>
        ELSE <<versions[CHOOSE j \in I : \A k \in I : j <= k]>>

\* every version string of `before` is in `after`, with the entry it had
KeepsVersions(before, after) ==
    \A j \in 1..Len(before) :
        /\ FirstEntry(after, before[j].version) # <<>>
        /\ FirstEntry(after, before[j].version)
              = FirstEntry(before, before[j].version)

\* the versions the lockfile on disk held for a package when the fetch began,
\* if the package had a record with the same repository
LockedBefore(package) ==
    LET pkgs == load_or_default(start.l).pkgs
        I == {k \in 1..Len(pkgs) : /\ pkgs[k].id = package.id
                                   /\ pkgs[k].repository = package.repository}
    IN  IF I = {} THEN <<>> ELSE pkgs[CHOOSE k \in I : TRUE].versions

\* C15: in a fetch without --wipe, the versions merged for a package whose
\* repository is unchanged hold every version that was locked before the
\* fetch, with the entry it had, whatever the upstream listed; and so does
\* the lockfile the fetch goes on to save.
C15_MergeKeepsLockedVersions ==
    (cmd.name = "fetch" /\ ~cmd.flag) =>
        /\ \A k \in 1..Len(outcomes) :
              ~outcomes[k].outcome.err =>
                 KeepsVersions(LockedBefore(mem.manifest[outcomes[k].index]),
                               outcomes[k].outcome.versions)
        /\ pc = "fetch_save" =>
              \A i \in 1..Len(mem.manifest) :
                 KeepsVersions(LockedBefore(mem.manifest[i]),
                               mem.lock.pkgs[i].versions)

\* a fetch about to save: one package kept a locked version the upstream
\* listed next to others no longer, another kept its versions although the
\* upstream listed no fetchable release
C15_Witness ==
    /\ cmd.name = "fetch" /\ ~cmd.flag /\ pc = "fetch_save"
    /\ Len(workers) = 2
    /\ \E i, j \in 1..2 :
          /\ workers[i].releases # <<>>
          /\ \A r \in 1..Len(workers[i].releases) :
                ~workers[i].releases[r].asset
          /\ LockedBefore(mem.manifest[i]) # <<>>
          /\ \E r \in 1..Len(workers[j].releases) :
                workers[j].releases[r].asset
          /\ \E v \in 1..Len(LockedBefore(mem.manifest[j])) :
                \A r \in 1..Len(workers[j].releases) :
                   Release_version(workers[j].releases[r])
                      # LockedBefore(mem.manifest[j])[v].version


\* release r of worker w was downloaded, parsed and validated
Accepted(w, r) ==
    \E k \in 1..Len(w.results) :
        w.results[k].ok /\ w.new_releases[w.results[k].release] = r

RECURSIVE InListingOrder(_, _)
\* for each fetchable release in listing order, its entry: the one just
\* fetched, else the one locked before for its version
InListingOrder(releases, w) ==
    IF releases = <<>> THEN <<>>
    ELSE LET r == Head(releases)
         IN  (IF ~r.asset THEN <<>>
              ELSE IF Accepted(w, r)
              THEN <<[version |-> Release_version(r), tag |-> r.tag]>>
              ELSE FirstEntry(w.existing_package.versions, Release_version(r)))
             \o InListingOrder(Tail(releases), w)

\* the entries locked before whose version no fetchable release lists, in
\* the order the lockfile had them
NoLongerListed(w) ==
    SelectSeq(w.existing_package.versions,
              LAMBDA e : \A k \in 1..Len(w.releases) :
                            ~(w.releases[k].asset
                              /\ Release_version(w.releases[k]) = e.version))

\* C16: the versions merged for a fetched package are the entries of the
\* fetchable releases in upstream listing order, followed by the entries
\* locked before that upstream no longer lists, in their lockfile order;
\* the order in which the downloads completed has no part in it.
C16_ListingOrderThenPriorOrder ==
    \A k \in 1..Len(outcomes) :
        ~outcomes[k].outcome.err =>
            LET w == workers[outcomes[k].index]
            IN  outcomes[k].outcome.versions
                   = InListingOrder(w.releases, w) \o NoLongerListed(w)


\* C19: the on_done events, in the order they were emitted, name the
\* manifest's packages in manifest order from the first on: all of them when
\* no listing failed, whatever order the packages finished in.
C19_DoneEventsInManifestOrder ==
    /\ Len(events) <= Len(mem.manifest)
    /\ \A k \in 1..Len(events) : events[k].id = mem.manifest[k].id
    /\ (cmd.name = "fetch" /\ pc \in {"fetch_save", "exit"}
           /\ workers # <<>> /\ ~ListingFailed) =>
          Len(events) = Len(mem.manifest)

\* two packages, the second finished first, both reported
C19_Witness ==
    /\ FetchExit
    /\ Len(outcomes) = 2 /\ outcomes[1].index = 2
    /\ Len(events) = 2


RECURSIVE DownloadsUpTo(_)
\* the downloads in flight in packages 1..i
DownloadsUpTo(i) ==
    IF i = 0 THEN 0
    ELSE Cardinality(workers[i].inflight) + DownloadsUpTo(i - 1)

\* C20: while the packages are fetched, with P = min(max_concurrent,
\* |packages|) and D = max(max_concurrent / P, 1): max_concurrent is in 1..50,
\* P * D <= max_concurrent, at most P packages are being fetched, at most D
\* downloads are in flight in each package, and the downloads in flight over
\* all packages are at most max_concurrent.
C20_ConcurrencyBounds ==
    (cmd.name = "fetch" /\ pc = "fetching") =>
        LET n == Len(mem.manifest)
            P == IF max_concurrent < n THEN max_concurrent ELSE n
            D == IF max_concurrent \div P > 1 THEN max_concurrent \div P ELSE 1
        IN  /\ max_concurrent \in 1..50 /\ n >= 1
            /\ P * D <= max_concurrent
            /\ Cardinality({i \in 1..n :
                   workers[i].st \in {"listing", "downloading"}}) <= P
            /\ \A i \in 1..n : Cardinality(workers[i].inflight) <= D
            /\ DownloadsUpTo(n) <= max_concurrent

\* max_concurrent 3 and two packages: both are being fetched, each with one
\* download in flight and another one waiting for it
C20_Witness ==
    /\ cmd.name = "fetch" /\ pc = "fetching" /\ max_concurrent = 3
    /\ Len(workers) = 2
    /\ \A i \in 1..2 :
          /\ workers[i].st = "downloading"
          /\ Cardinality(workers[i].inflight) = 1
          /\ Len(workers[i].new_releases) = 2
          /\ workers[i].started = 1


\* lock in default mode is past verify_repositories, and the manifest on
\* disk no longer has the hash computed before it
ChangedDuringVerification ==
    /\ cmd.name = "lock" /\ ~cmd.flag
    /\ manifest.ex
    /\ compute_manifest_hash_from_manifest(ParseManifest(manifest)) # mem.hash

\* C21: the step of lock that follows a successful repository verification,
\* taken when the manifest on disk no longer has the hash computed before the
\* verification, ends the command with ManifestHashMismatch and leaves the
\* lockfile, the manifest and the log path as they are.
C21_ChangedDuringVerificationIsRefused ==
    [][(/\ pc = "lk_verify" /\ pc' \in {"exit", "lk_save"}
        /\ result' # "RepositoryNotFound"
        /\ ChangedDuringVerification)
       => (/\ pc' = "exit" /\ result' = "ManifestHashMismatch"
           /\ lock' = lock /\ manifest' = manifest /\ txn' = txn)]_vars

\* lock has refused a manifest that changed while it verified, next to a
\* lockfile that stores a hash
C21_Witness ==
    /\ pc = "exit" /\ mem # NoMem /\ ChangedDuringVerification
    /\ result = "ManifestHashMismatch"
    /\ lock.ex /\ load_or_default(lock).hash # NoHash

LockCheckExit == pc = "exit" /\ cmd.name = "lock" /\ cmd.flag

\* the lockfile on disk stores the hash of the manifest on disk
StoredHashIsCurrent ==
    /\ load_or_default(lock).hash # NoHash
    /\ load_or_default(lock).hash =
          compute_manifest_hash_from_manifest(ParseManifest(manifest))

\* C22 as stated: lock --check that found a manifest and a lockfile leaves
\* them as it found them, succeeds when the stored hash is the manifest's,
\* and fails with ManifestHashMismatch otherwise.
C22_AsStated ==
    (LockCheckExit /\ start.m.ex /\ start.l.ex) =>
        /\ manifest = start.m /\ lock = start.l
        /\ result = (IF StoredHashIsCurrent THEN "ok"
                     ELSE "ManifestHashMismatch")

\* C22: lock --check that found no transaction log leaves the manifest, the
\* lockfile and the log path as they were; with both files present it
\* succeeds when the stored hash is the manifest's and fails with
\* ManifestHashMismatch otherwise, a missing stored hash included, and with a
\* file missing it fails with a configuration error. After a recovery its
\* verdict is that of the recovered files.
C22_CheckOnlyObserves ==
    LockCheckExit =>
        /\ start.t.kind = "none" =>
              /\ manifest = start.m /\ lock = start.l /\ txn = NoTx
              /\ result = (IF ~manifest.ex \/ ~lock.ex THEN "ConfigValidation"
                           ELSE IF StoredHashIsCurrent THEN "ok"
                           ELSE "ManifestHashMismatch")
        /\ result = "ok" => manifest.ex /\ lock.ex /\ StoredHashIsCurrent
        /\ result = "ManifestHashMismatch" =>
              manifest.ex /\ lock.ex /\ ~StoredHashIsCurrent

\* lock --check has refused a lockfile that stores no hash
C22_Witness ==
    /\ LockCheckExit /\ start.t.kind = "none"
    /\ manifest.ex /\ lock.ex /\ load_or_default(lock).hash = NoHash
    /\ result = "ManifestHashMismatch"

\* the errors the retry policy names: a timeout, a connection failure, a
\* generic request failure, a 5xx status or a 429
NamedForRetry(e) ==
    \/ e.timeout
    \/ e.connect
    \/ e.kind = "request"
    \/ (e.status >= 500 /\ e.status <= 599)
    \/ e.status = 429

\* a 4xx status other than 429
RefusedStatus(e) == e.status >= 400 /\ e.status <= 499 /\ e.status # 429

\* C23: an asset download sends at most max_retries + 1 requests; it goes on
\* to another attempt only after an error the retry policy names, returns at
\* the first success, and returns the error at once on a 4xx other than 429
C23_BoundedSelectiveRetry ==
    /\ [](sent.get <= max_retries + 1)
    /\ [][(rq = "call" /\ rq' # "call") =>
            LET out == calls'[1].out
            IN /\ rq' \in {"sleep", "done"}
               /\ rq' = "sleep" => ~out.ok /\ NamedForRetry(out)
               /\ out.ok => rq' = "done" /\ verdict' = Ok
               /\ (~out.ok /\ RefusedStatus(out)) =>
                     rq' = "done" /\ verdict' = out]_vars
    /\ [][rq = "done" => sent' = sent]_vars

\* the download gave up on a 404 at its third attempt, with retries left
C23_Witness ==
    /\ rq = "done"
    /\ sent.get = 3
    /\ max_retries = 8
    /\ verdict.status = 404
    /\ Len(slept) = 2

\* min(500ms * 2^(n-1), 30s) for n >= 1, in milliseconds: from n = 7 on the
\* product is 32000 or more
ExactDelay(n) == IF n >= 7 THEN 30000 ELSE Min(500 * 2^(n - 1), 30000)

\* the attempt number the i-th sleep of the run was computed from
SleptFor(i) == attempt - Len(slept) + i - 1

\* C24: the delay after attempt n >= 1 is min(500ms * 2^(n-1), 30s): 500ms
\* after the first attempt, never less than the delay before it, never more
\* than 30s, and computed without a shift or a product that overflows
C24_CappedExponentialDelay ==
    \A i \in 1..Len(slept) :
        LET n == SleptFor(i)
        IN /\ n >= 1 => slept[i] = ExactDelay(n)
           /\ n = 1 => slept[i] = 500
           /\ slept[i] <= 30000
           /\ i > 1 => slept[i - 1] <= slept[i]
           /\ backoff_exponent(n) < 64
           /\ RETRY_DELAY_BASE_MS * shl_u64(backoff_exponent(n)) < Huge

\* the delays after the sixth and the seventh attempt: the cap sets in
C24_Witness ==
    /\ rq = "done"
    /\ SleptFor(1) = 6
    /\ slept = <<16000, 30000>>

\* the loop went on: to the sleep of the next attempt, or, with no attempt
\* left, out with the verdict invalid
WentOnToRetry ==
    IF attempt < max_retries
    THEN rq' = "sleep" /\ attempt' = attempt + 1
    ELSE rq' = "done" /\ verdict' = Exists(FALSE)

ReturnedFrom(b) == rq' = "done" /\ verdict' = Exists(b) /\ attempt' = attempt

\* C26: every attempt on a URL starts with a HEAD. A 2xx makes the URL
\* valid; 403, 405 and 501 lead to the GET fallback; any other 4xx but 429
\* makes it invalid at once; 429, any other 5xx and a transport error lead to
\* the next attempt
C26_HeadDecides ==
    /\ [](calls # <<>> => calls[1].method = "HEAD")
    /\ [][rq = "head" =>
            LET out == calls'[1].out
                st == out.status
            IN /\ sent'.head = sent.head + 1 /\ sent'.get = sent.get
               /\ (out.ok /\ st >= 200 /\ st <= 299) => ReturnedFrom(TRUE)
               /\ (out.ok /\ st \in {403, 405, 501}) => rq' = "get"
               /\ (out.ok /\ st >= 400 /\ st <= 499
                          /\ st \notin {429, 403, 405}) => ReturnedFrom(FALSE)
               /\ (~out.ok \/ st = 429
                           \/ (st >= 500 /\ st <= 599 /\ st # 501)) =>
                     WentOnToRetry]_vars

\* a HEAD answered 404 at the second attempt ended the check with retries left
C26_Witness ==
    /\ rq = "done"
    /\ verdict = Exists(FALSE)
    /\ attempt = 1
    /\ max_retries = 3
    /\ Len(calls) = 1
    /\ calls[1].out.status = 404

\* the request sent last
LastCall == calls[Len(calls)]

\* C27: a GET goes out only right after the HEAD of the same attempt was
\* answered 403, 405 or 501, and it carries Range: bytes=0-0. A 2xx to the
\* GET makes the URL valid, a 4xx other than 429 makes it invalid, and 429, a
\* 5xx or a transport error lead to the next attempt
C27_GetOnlyAsFallback ==
    /\ [](\A i \in 1..Len(calls) :
             calls[i].method = "GET" =>
                /\ calls[i].range
                /\ i = 2
                /\ calls[1].method = "HEAD"
                /\ calls[1].out.ok
                /\ calls[1].out.status \in {403, 405, 501})
    /\ [][sent'.get # sent.get =>
            LET out == calls'[Len(calls')].out
                st == out.status
            IN /\ sent'.get = sent.get + 1 /\ sent'.head = sent.head
               /\ LastCall.method = "HEAD"
               /\ LastCall.out.ok /\ LastCall.out.status \in {403, 405, 501}
               /\ calls' = Append(calls, calls'[Len(calls')])
               /\ (out.ok /\ st >= 200 /\ st <= 299) => ReturnedFrom(TRUE)
               /\ (out.ok /\ st >= 400 /\ st <= 499 /\ st # 429) =>
                     ReturnedFrom(FALSE)
               /\ (~out.ok \/ st = 429 \/ (st >= 500 /\ st <= 599)) =>
                     WentOnToRetry]_vars

\* the HEAD was answered 405, the ranged GET 429, and the next attempt waits
C27_Witness ==
    /\ rq = "sleep"
    /\ attempt = 1
    /\ Len(calls) = 2
    /\ calls[1].out.status = 405
    /\ calls[2].method = "GET" /\ calls[2].range
    /\ calls[2].out.status = 429

\* the answer to a request that leads to the next attempt: a transport
\* error, a 429, or a status that is neither 2xx nor 4xx
RetryableAnswer(c) ==
    \/ ~c.out.ok
    \/ c.out.status = 429
    \/ /\ ~(c.out.status >= 200 /\ c.out.status <= 299)
       /\ ~(c.out.status >= 400 /\ c.out.status <= 499)
       /\ ~(c.method = "HEAD" /\ c.out.status = 501)

\* C28: the check of one URL makes at most max_retries + 1 attempts (one
\* HEAD and at most one GET each) and always returns; when the last attempt
\* too ends in a retryable answer, all max_retries + 1 attempts were made and
\* the URL is reported invalid
C28_BoundedCheckTerminates ==
    /\ [](/\ attempt <= max_retries
          /\ sent.head <= max_retries + 1
          /\ sent.get <= sent.head
          /\ Len(slept) <= max_retries)
    /\ [](rq = "done" /\ RetryableAnswer(LastCall) =>
             /\ verdict = Exists(FALSE)
             /\ sent.head = max_retries + 1)
    /\ <>(rq = "done")

\* nine attempts, the last answered 503 like the ones before
C28_Witness ==
    /\ rq = "done"
    /\ max_retries = 8
    /\ sent.head = 9
    /\ Len(slept) = 8
    /\ LastCall.out.status = 503
    /\ verdict = Exists(FALSE)

\* C25 as stated: no request of any kind, asset downloads included, goes out
\* while the tracked quota is 10 or less and the tracked reset lies ahead,
\* or while the quota is still the sentinel
C25_AsStated ==
    \A t \in RateTasks :
        tasks[t].last.op # "none" =>
            ~tasks[t].last.due /\ ~tasks[t].last.unset

\* a request to the API (a page of a listing, a repository) goes out
ApiCallGoesOut(t) == tasks'[t].pc = "call" /\ tasks[t].pc # "call"

\* C25: before a release listing or a repository verification goes out, the
\* counters are populated, and the future either read counters that did not
\* call for a wait (quota over 10, or reset not ahead) or slept until one
\* second past the reset it read
C25_WaitsBeforeApiCalls ==
    [][\A t \in RateTasks :
          /\ ApiCallGoesOut(t) =>
                /\ rate_limit_remaining' # U64_MAX
                /\ \/ /\ tasks[t].pc = "sleep"
                      /\ now >= tasks[t].wake
                   \/ /\ tasks[t].pc \in {"check", "probe"}
                      /\ ~(/\ rate_limit_remaining' <= 10
                           /\ rate_limit_reset' > now)
          /\ (tasks'[t].pc = "sleep" /\ tasks[t].pc # "sleep") =>
                /\ rate_limit_remaining' <= 10
                /\ rate_limit_reset' > now
                /\ tasks'[t].wake = rate_limit_reset' + 1]_vars

\* a listing went out after its future had slept past the reset
C25_Witness ==
    \E t \in RateTasks :
        /\ tasks[t].pc = "call"
        /\ tasks[t].last.op = "releases"
        /\ tasks[t].page = 1
        /\ tasks[t].wake > 1
        /\ now >= tasks[t].wake
        /\ rate_limit_remaining = 10

\* the previous file, or all the bytes of one of the writes
PreviousOrOneWrite(f) == f = previous \/ \E w \in Writers : f = WholeFile(w)

\* C29: whatever the writers do and wherever they are killed, the output
\* path holds, and a reader gets, the complete previous file or the complete
\* file of one of the writes, and no two calls in progress share a temp file
C29_ReadersSeeWholeFiles ==
    /\ PreviousOrOneWrite(dir[OutputPath])
    /\ PreviousOrOneWrite(observed)
    /\ \A v, w \in Writers :
          (v # w /\ InProgress(v) /\ InProgress(w)) =>
              writers[v].temp # writers[w].temp

\* the errors whose exit code is ExitCode::CONFIG; "Unresolved" is the
\* ConfigValidation of recover_manifest_lock_transaction
ConfigErrors ==
    {"ConfigValidation", "Unresolved", "ManifestHashMismatch",
     "InvalidPackageId", "InvalidRepository", "InvalidUrl"}

\* some package of the manifest on disk has no record in the lockfile on disk
SomePackageUnlocked ==
    /\ manifest.ex
    /\ \E i \in 1..Len(ParseManifest(manifest)) :
          ParseManifest(manifest)[i].id \notin IdsOf(load_or_default(lock).pkgs)

GenerateExit == pc = "exit" /\ cmd.name = "generate"

\* C30 as stated: generate ends in a configuration error whenever a manifest
\* package has no record in the lockfile
C30_AsStated == (GenerateExit /\ SomePackageUnlocked) => result \in ConfigErrors

\* the errors a failed recovery of the transaction log returns
RecoveryErrors == {"FileWrite", "JsonParse"}

\* C30: whenever some manifest package has no record in the lockfile,
\* generate fails without calling write_json, and the error is a
\* configuration error unless recovery of a pending log has failed
C30_UnlockedPackageFailsGenerate ==
    (GenerateExit /\ SomePackageUnlocked) =>
        /\ result \notin {"ok", "OutputWrite"}
        /\ \/ result \in ConfigErrors
           \/ start.t.kind # "none" /\ result \in RecoveryErrors

\* the gate let generate through, the lockfile has records, and package b
\* has none
C30_Witness ==
    /\ GenerateExit
    /\ SomePackageUnlocked
    /\ StoredHashIsCurrent
    /\ load_or_default(lock).pkgs # <<>>
    /\ result = "ConfigValidation"

\* generate returned Ok: the index it built is on disk
Generated == GenerateExit /\ result = "ok"

\* the entry of version record v in the versions of an index package
CarriesVersion(versions, v) ==
    \E k \in 1..Len(versions) :
        /\ versions[k].key = v.version
        /\ versions[k].value = [version |-> v.version, url |-> v.tag]

\* C31: in a generated index the packages are the manifest's in manifest
\* order, every locked version of a manifest package has its entry with its
\* own metadata, and the entries follow the lockfile's order of versions
C31_IndexCarriesLockfile ==
    Generated =>
        LET m == ParseManifest(manifest)
            l == load_or_default(lock)
        IN  /\ [i \in 1..Len(output) |-> output[i].key]
                  = [i \in 1..Len(m) |-> m[i].id]
            /\ \A i \in 1..Len(m) :
                  LET locked == SelectSeq(l.pkgs,
                                          LAMBDA p : p.id = m[i].id)[1].versions
                  IN  /\ \A j \in 1..Len(locked) :
                             CarriesVersion(output[i].versions, locked[j])
                      /\ [k \in 1..Len(output[i].versions) |->
                             output[i].versions[k].key]
                            = [j \in 1..Len(locked) |-> locked[j].version]

\* no package record holds two entries of one version string
DistinctVersions(pkgs) ==
    \A i \in 1..Len(pkgs) :
        \A a, b \in 1..Len(pkgs[i].versions) :
            a # b => pkgs[i].versions[a].version # pkgs[i].versions[b].version

\* C35: after a fetch that found no lockfile, or one in which no package held
\* a version string twice, no package of the lockfile on disk holds a version
\* string twice, whatever the upstream listed.
C35_NoDuplicateVersions ==
    (FetchExit /\ result = "ok"
        /\ DistinctVersions(load_or_default(start.l).pkgs)) =>
        DistinctVersions(load_or_default(lock).pkgs)

\* generate or validate has returned
ReadOnlyExit == pc = "exit" /\ cmd.name \in {"generate", "validate"}

\* C32: after generate or validate the lockfile is as the command found it,
\* in existence and in contents, a pending transaction log included.
C32_LockfileAsBefore == ReadOnlyExit => lock = start.l

\* the releases of a listing that carry the asset
Fetchable(releases) == SelectSeq(releases, LAMBDA r : r.asset)

\* the downloads of worker w that were accepted
AcceptedCount(w) == Len(SelectSeq(w.results, LAMBDA r : r.ok))

\* every entry of versions is the entry of a release worker w downloaded and
\* accepted in this run, one entry per accepted download
OnlyDownloaded(versions, w) ==
    /\ Len(versions) = AcceptedCount(w)
    /\ \A j \in 1..Len(versions) :
          \E k \in 1..Len(w.results) :
              /\ w.results[k].ok
              /\ versions[j] =
                    [version |-> Release_version(w.new_releases[w.results[k].release]),
                     tag |-> w.new_releases[w.results[k].release].tag]

\* C33: in a fetch with --wipe every package is fetched with no locked
\* version, from the first poll on; every fetchable release of a listing is
\* queued for download; the versions merged for a package are the entries of
\* this run's accepted downloads and nothing else; and so are the versions of
\* the lockfile the fetch saves.
C33_WipeRefetchesEverything ==
    (cmd.name = "fetch" /\ cmd.flag) =>
        /\ pc = "fetching" =>
              \A i \in 1..Len(workers) :
                  /\ workers[i].existing_package.versions = <<>>
                  /\ workers[i].new_releases = Fetchable(workers[i].releases)
        /\ \A k \in 1..Len(outcomes) :
              ~outcomes[k].outcome.err =>
                  OnlyDownloaded(outcomes[k].outcome.versions,
                                 workers[outcomes[k].index])
        /\ (pc = "exit" /\ result = "ok" /\ workers # <<>>) =>
              /\ Len(load_or_default(lock).pkgs) = Len(workers)
              /\ \A i \in 1..Len(workers) :
                    OnlyDownloaded(load_or_default(lock).pkgs[i].versions,
                                   workers[i])

\* a wiping fetch saved a lockfile in which a package that had two locked
\* versions has one: upstream no longer lists the other
C33_Witness ==
    /\ FetchExit /\ cmd.flag /\ result = "ok"
    /\ \E i \in 1..Len(load_or_default(lock).pkgs) :
       \E j \in 1..Len(load_or_default(start.l).pkgs) :
          /\ load_or_default(lock).pkgs[i].id
                = load_or_default(start.l).pkgs[j].id
          /\ Len(load_or_default(start.l).pkgs[j].versions) = 2
          /\ Len(load_or_default(lock).pkgs[i].versions) = 1

\* the pair a recovery that finds files m and l beside log t ends with: the
\* new pair when both files are new, the old pair when they are old or when
\* only the manifest is new, and none when the files match no such state
RecoveryGoal(m, l, t) ==
    IF m.ex /\ m = t.new_manifest /\ l.ex /\ l = t.new_lock
    THEN <<t.new_manifest, t.new_lock>>
    ELSE IF /\ (IF m.ex THEN m \in {t.old_manifest, t.new_manifest}
                        ELSE ~t.old_manifest.ex)
            /\ (IF l.ex THEN l = t.old_lock ELSE ~t.old_lock.ex)
    THEN <<t.old_manifest, t.old_lock>>
    ELSE <<>>

\* recovery has chosen its branch and has not returned
Recovering == pc \in {"rec_wm", "rec_wl", "rec_rm"}

\* C34: at every step of a recovery the files on disk are such that a
\* recovery begun there, after an interruption, ends with the pair this one
\* set out for; when only the log is left to delete the files are that pair;
\* and a recovery that finds no log writes nothing and returns.
C34_RecoveryIsIdempotent ==
    /\ [](Recovering =>
            /\ RecoveryGoal(rsnap.m, rsnap.l, rtx) # <<>>
            /\ txn = rtx =>
                  RecoveryGoal(manifest, lock, txn)
                     = RecoveryGoal(rsnap.m, rsnap.l, rtx)
            /\ pc = "rec_rm" =>
                  <<manifest, lock>> = RecoveryGoal(rsnap.m, rsnap.l, rtx))
    /\ [][(pc = "rec_load" /\ txn.kind = "none") =>
             /\ manifest' = manifest /\ lock' = lock /\ txn' = txn
             /\ ~Recovering']_vars

\* C36: a fetch in which the release listing of some package failed ends with
\* that upstream error, not with FetchPartialFailure and not with Ok, and
\* with the lockfile on disk as the command found it, whatever the other
\* packages fetched.
C36_ListingErrorFailsFetch ==
    (FetchExit /\ ListingFailed) =>
        /\ result = "GitHub"
        /\ lock = start.l

\* the listing of one package failed after another package had fetched a
\* version the lockfile did not hold, and a release of it had failed
C36_Witness ==
    /\ FetchExit /\ ListingFailed /\ result = "GitHub" /\ lock = start.l
    /\ \E k \in 1..Len(outcomes) :
          /\ ~outcomes[k].outcome.err
          /\ outcomes[k].outcome.new_count > 0
          /\ outcomes[k].outcome.failed_count > 0

\* a fetch without --wipe runs after a fetch that returned Ok, against the
\* upstream that fetch saw
SecondFetch == cmd.name = "fetch" /\ ~cmd.flag /\ last_ok

\* C37: a fetch that follows a successful fetch of the same manifest, with
\* the upstream unchanged, starts no download, and the lockfile it saves is
\* the lockfile the first fetch left: same packages, same versions in the
\* same order, same stored hash.
C37_FetchIsIdempotent ==
    SecondFetch =>
        /\ pc = "fetching" =>
              \A i \in 1..Len(workers) :
                  workers[i].new_releases = <<>> /\ workers[i].started = 0
        /\ (pc = "exit" /\ result = "ok") => lock = start.l

\* C38: a client that has sent more API calls than the remaining quota its
\* first probe reported has, by then, probed again or slept until a reset.
C38_QuotaFollowsCalls ==
    (quota.first # U64_MAX /\ quota.calls > quota.first) => quota.relief

\* init --force is running, or has exited, with arguments that pass validation
ForceInit == cmd.name = "init" /\ cmd.flag /\ cmd.pkg # "outside"

\* C39: init --force never loads or replays the log it found: when its
\* save_manifest_and_lock looks for a log there is none, and a rollback runs
\* only for its own commit, after one of its own writes failed. It fails
\* only when a file operation fails, whatever the log was; once it has
\* succeeded no log exists, the files are the fresh manifest and lockfile,
\* and the stored hash is the manifest's.
C39_ForceInitIgnoresLog ==
    ForceInit =>
        /\ (pc = "rec_load" /\ ret = "save") => txn = NoTx
        /\ pc \in {"rec_wm", "rec_wl", "rec_rm"} => ret = "save_err"
        /\ pc = "exit" =>
              /\ result \in {"ok", "FileWrite"}
              /\ result = "ok" =>
                    /\ txn = NoTx
                    /\ manifest = serialize_manifest(Manifest_new)
                    /\ lock = serialize_lock(InitLock)
                    /\ StoredHashIsCurrent

\* init --force has succeeded where recovery could not have resolved the log
C39_Witness ==
    /\ ForceInit /\ pc = "exit" /\ result = "ok"
    /\ start.t.kind = "log"
    /\ RecoveryDecision(start.m, start.l, start.t) = "unresolved"

\* add or remove has failed after check_and_load returned and before
\* save_manifest_and_lock was called: the id is outside the namespace, the
\* package is a duplicate or unknown, or the repository was not found
Rejected ==
    /\ pc = "exit" /\ cmd.name \in {"add", "remove"}
    /\ ret = "gate" /\ mem # NoMem
    /\ result \in {"InvalidPackageId", "ConfigValidation",
                    "RepositoryNotFound"}

\* C40 as stated: an add or remove that fails for one of these reasons has
\* left both files as it found them, and no log is on disk.
C40_AsStated == Rejected => manifest = start.m /\ lock = start.l /\ txn = NoTx

\* C40: an add or remove that fails for one of these reasons leaves no log
\* on disk, and has left both files as it found them unless the recovery it
\* ran first rolled the pair back to the old pair of a pending log.
C40_FailedEditKeepsFiles ==
    Rejected =>
        /\ txn = NoTx
        /\ \/ manifest = start.m /\ lock = start.l
           \/ /\ start.t.kind = "log"
              /\ manifest = start.t.old_manifest /\ lock = start.t.old_lock

\* add has failed with RepositoryNotFound on files with no log pending
C40_Witness ==
    /\ Rejected /\ cmd.name = "add" /\ result = "RepositoryNotFound"
    /\ start.t.kind = "none" /\ start.m.ex /\ start.l.ex

====
